---- MODULE Spec2Model ----
(***************************************************************************)
(* The update engine of gaphas' Canvas (src/gaphas/canvas.py): the item    *)
(* tree, the two dirty sets, the coalescing update() hook and the          *)
(* non-recursive update_now() pipeline with its item hooks, solver run and *)
(* view notification.                                                      *)
(*                                                                         *)
(* update_now() calls back into user code (item.pre_update, item.update,   *)
(* solver side effects, view.request_update).  Each such callback is a     *)
(* position of the running update (pc = "hook" / "view_hook") in which the *)
(* callback may call request_update, request_matrix_update, update or      *)
(* update_now on the canvas before it returns or raises.                   *)
(*                                                                         *)
(* The canvas lives in a running main loop: update() defers update_now to  *)
(* an idle callback (decorator async(single=True)).                        *)
(*                                                                         *)
(* Between updates the application also works on the canvas constraint     *)
(* table and the solver (SpecConstraints) and on the connections of the    *)
(* items' handles, through ItemConnector (src/gaphas/aspect/connector.py)  *)
(* and ConnectHandleTool (src/gaphas/tool.py) (SpecConnections).           *)
(*                                                                         *)
(* Further specifications follow the item matrices (SpecMatrices), the     *)
(* tree under reparent (SpecTree), ToolChain (SpecTools), the port choice  *)
(* of ItemConnectionSink.glue (SpecSink), the solver and its variables     *)
(* (SpecSolver, SpecVariable) and CanvasProjection (SpecProjection).       *)
(*                                                                         *)
(* The handles normalised by _update_handles (SpecHandles), the requests   *)
(* and removals made by hooks (SpecRequests, SpecContexts), the update_now *)
(* of the older src/canvas.py (SpecLegacy), direct grab and ungrab calls   *)
(* on the ToolChain (SpecGrab) and the ItemTool and HandleTool of          *)
(* src/gaphas/tool.py (SpecItemTool, SpecHandleTool) have their own.       *)
(***************************************************************************)
EXTENDS Integers, Sequences, FiniteSets, TLC

\* ------------------------------------------------------------------ bounds
MaxItems == 2
MaxViews == 1
MaxAdds == 3
MaxHookCalls == 1
MaxHandles == 2
MaxConnectable == 1
MaxCons == 1
MaxTools == 2
MaxCoord == 8
MaxPorts == 2
MaxDist == 2
MaxVars == 3
MaxSolverCons == 2
JuggleLimit == 3
MaxOperand == 4
MaxShift == 2

Items == 1..MaxItems
Views == 1..MaxViews
None == 0

\* The handles of item i are <<i, 1>> .. <<i, MaxHandles>>.
Handles == Items \X (1..MaxHandles)
owner(h) == h[1]
NoHandle == <<None, None>>

\* The first MaxConnectable handles of an item have connectable set.
Connectable == {h \in Handles : h[2] <= MaxConnectable}

\* The constraint objects handed to add_canvas_constraint.
Cons == 1..MaxCons

\* The tools that get appended to the ToolChain, in this order.
Tools == 1..MaxTools

\* The variables given to the solver's constraints, two strengths of the
\* ladder and the values of spec 8's scenarios.
Vars == 1..MaxVars
WEAK == 10
STRONG == 30
Strengths == {WEAK, STRONG}
Values == {0, 3}

\* EqualsConstraint(a, b), for two different variables.
EqualsConstraint(a, b) == [kind |-> "equals", vars |-> <<a, b>>]
ConstraintObjs == {EqualsConstraint(a, b) : a, b \in Vars} \ {EqualsConstraint(a, a) : a \in Vars}
NoConstraint == [kind |-> "none", vars |-> <<>>]

\* 1e4, the distance glue returns when it has no glue position.
BigDist == 10000

\* No position (None in the code); a position is a pair <<x, y>>.
NoPos == <<>>

VARIABLES
    children,            \* Tree: parent (None for the root level) -> ordered children
    canvas_of,           \* items whose .canvas attribute is this canvas
    sort_key,            \* item._sort_key
    sorter_key,          \* Sorter._key, the last key handed out
    dirty_items,         \* Canvas._dirty_items
    dirty_matrix_items,  \* Canvas._dirty_matrix_items
    registered_views,    \* Canvas._registered_views
    idle_queue,          \* number of pending idle callbacks of update()
    pc,                  \* position of update_now: idle, run, hook, views, view_hook
    stage,               \* index into Pipeline while update_now runs
    todo,                \* items left in the running pre_update / update loop
    cur,                 \* the item (or view) whose callback is running
    calls,               \* canvas calls made so far by the running callback
    local_dm,            \* update_now's local dirty_matrix_items
    dm_marked,           \* items matrix-dirty at the start or marked in pre_update / solve
    context_map,         \* items that got a Context in the pre_update loop
    views_todo,          \* views left in _update_views' loop
    exc,                 \* an exception is propagating through finally
    trace,               \* what the current / last update_now did, in order
    requested,           \* items request_update was called for since the last update_now
    req_at_entry,        \* requested, as it was when the last update_now started
    unserved,            \* items a running hook requested, not yet passed to update()
    result,              \* how the last update_now ended: none, returned, raised
    in_update,           \* the guard of update_now: a call is running
    lastOp,              \* the operation that produced this state
    lastArg,             \* its item or view argument (None if it has none)
    lastArg2,            \* the parent argument of add
    lastHandle,          \* its handle argument (NoHandle if it has none)
    lastErr,             \* the exception the operation raised ("none" if none)
    op_log,              \* what the operation did, in order
    connected_to,        \* handle -> the item it is connected to (None if none)
    disconnect_cb,       \* handle -> its disconnect callback is still to be called
    constraint_items,    \* keys of Canvas._canvas_constraints
    constraint_handles,  \* handles that have an entry in _canvas_constraints[item]
    constraint_sets,     \* handle -> the constraints of _canvas_constraints[item][handle]
    solver_constraints,  \* the constraints registered in the solver
    generator,           \* item of the canvas_constraints() generator not yet iterated
    matrix,              \* item.matrix, the item-to-parent transformation
    matrix_i2c,          \* item._matrix_i2c (NoMatrix until it is calculated)
    matrix_c2i,          \* item._matrix_c2i (NoMatrix until it is calculated)
    handle_pos,          \* handle -> its position (x, y) in item coordinates
    chain_tools,         \* ToolChain._tools
    grabbed_tool,        \* ToolChain._grabbed_tool (None if no tool is grabbed)
    tool_event,          \* the type of the event last given to ToolChain.handle
    tool_log,            \* the calls of tool handlers that handle() made, in order
    tool_result,         \* what that handle() returned, or the exception it raised
    sink_port,           \* ItemConnectionSink.port (None, or the index of the port)
    glue_ports,          \* the item's ports as the last glue(pos) found them
    glue_limit,          \* ItemConnectionSink.distance
    glue_result,         \* what the last glue(pos) returned
    var_value,           \* Variable.value
    var_strength,        \* Variable.strength
    registered_constraints, \* the solver's ordered set of constraints
    marked_constraints,  \* the solver's marked (dirty) constraints
    solving,             \* solve() is running
    solve_count,         \* constraint -> times the running / last solve() solved it
    values_at_entry,     \* the values when the running / last solve() started
    last_solved,         \* the constraint whose solve() was called last
    solver_result,       \* how the last solve() ended: none, solved, JuggleError
    expr_op,             \* the operator of the expression evaluated last
    expr_left,           \* its left operand, a Variable or a plain number
    expr_right,          \* its right operand
    expr_result,         \* the value of the expression
    proj_item,           \* CanvasProjection._item (None: no projection made yet)
    proj_point,          \* CanvasProjection._point, in item coordinates
    proj_cache,          \* CanvasProjection._px, _py
    proj_read,           \* the value the last read of a projected coordinate gave
    movable_items,       \* ItemTool._movable_items: the items of its InMotion aspects
    grabbed_item,        \* HandleTool.grabbed_item (None if none)
    grabbed_handle,      \* HandleTool.grabbed_handle (NoHandle if None)
    motion_handle,       \* HandleTool.motion_handle: the handle of its HandleInMotion
    aspect_log,          \* the calls of aspect methods the last tool handler made
    handler_result       \* what that handler returned: none, true, false, raised

vars == <<children, canvas_of, sort_key, sorter_key, dirty_items,
          dirty_matrix_items, registered_views, idle_queue, pc, stage, todo,
          cur, calls, local_dm, dm_marked, context_map, views_todo, exc, trace,
          requested, req_at_entry, unserved, result, in_update, lastOp, lastArg, lastArg2,
          lastHandle, lastErr, op_log, connected_to, disconnect_cb, constraint_items,
          constraint_handles, constraint_sets, solver_constraints, generator,
          matrix, matrix_i2c, matrix_c2i, handle_pos,
          chain_tools, grabbed_tool, tool_event, tool_log, tool_result,
          sink_port, glue_ports, glue_limit, glue_result,
          var_value, var_strength, registered_constraints, marked_constraints,
          solving, solve_count, values_at_entry, last_solved, solver_result,
          expr_op, expr_left, expr_right, expr_result,
          proj_item, proj_point, proj_cache, proj_read,
          movable_items, grabbed_item, grabbed_handle, motion_handle,
          aspect_log, handler_result>>

treeVars == <<children, canvas_of, sort_key, sorter_key>>
runVars == <<pc, stage, todo, cur, local_dm, dm_marked, context_map,
             views_todo, exc, trace, req_at_entry, result, in_update>>
connVars == <<connected_to, disconnect_cb>>
consVars == <<constraint_items, constraint_handles, constraint_sets,
              solver_constraints, generator>>
matVars == <<matrix, matrix_i2c, matrix_c2i, handle_pos>>
toolVars == <<chain_tools, grabbed_tool, tool_event, tool_log, tool_result>>
glueVars == <<sink_port, glue_ports, glue_limit, glue_result>>
solverVars == <<var_value, var_strength, registered_constraints,
                marked_constraints, solving, solve_count, values_at_entry,
                last_solved, solver_result>>
exprVars == <<expr_op, expr_left, expr_right, expr_result>>
projVars == <<proj_item, proj_point, proj_cache, proj_read>>
dragVars == <<movable_items, grabbed_item, grabbed_handle, motion_handle,
              aspect_log, handler_result>>
asideVars == <<toolVars, glueVars, solverVars, exprVars, projVars, dragVars>>

\* ------------------------------------------------------------ matrices
\* An affine transformation <<s, x0, y0>>: the point (x, y) goes to
\* (s * x + x0, s * y + y0), s being 1 or -1 (a rotation by a half turn).
\* The identity is the matrix of a new item.
Identity == <<1, 0, 0>>

\* item._matrix_i2c and item._matrix_c2i of an item whose matrices have not
\* been calculated yet (None in the code).
NoMatrix == <<>>

\* a *= b (cairo's multiply): a is applied first, then b.
multiply(a, b) == <<a[1] * b[1], b[1] * a[2] + b[2], b[1] * a[3] + b[3]>>

invert(m) == <<m[1], 0 - m[1] * m[2], 0 - m[1] * m[3]>>

transform_point(m, x, y) == <<m[1] * x + m[2], m[1] * y + m[3]>>

\* The matrices the application gives to its items: the identity,
\* translate(5, 0) and translate(0, 8).
LocalMatrices == {Identity, <<1, 5, 0>>, <<1, 0, 8>>}

Abs(n) == IF n < 0 THEN 0 - n ELSE n

\* The translation of every calculated matrix is within MaxCoord.
InBounds(i2c) ==
    \A i \in DOMAIN i2c :
        i2c[i] # NoMatrix => Abs(i2c[i][2]) <= MaxCoord /\ Abs(i2c[i][3]) <= MaxCoord

\* ------------------------------------------------------------ the tree
Range(s) == {s[k] : k \in DOMAIN s}

nodes == UNION {Range(children[p]) : p \in DOMAIN children}

get_parent(item) ==
    IF \E p \in Items : item \in Range(children[p])
    THEN CHOOSE p \in Items : item \in Range(children[p])
    ELSE None

get_children(item) == children[item]

RECURSIVE AncestorsFrom(_, _)
AncestorsFrom(item, fuel) ==
    IF fuel = 0 \/ get_parent(item) = None THEN {}
    ELSE {get_parent(item)} \cup AncestorsFrom(get_parent(item), fuel - 1)

get_ancestors(item) == AncestorsFrom(item, MaxItems)

Descendants(item) == {d \in nodes : item \in get_ancestors(d)}

SeqWithout(s, x) == SelectSeq(s, LAMBDA y : y # x)

tree_add(ch, item, parent) ==
    [ch EXCEPT ![parent] = Append(@, item)]

tree_remove(ch, gone) ==
    [p \in DOMAIN ch |->
        IF p \in gone THEN <<>> ELSE SelectSeq(ch[p], LAMBDA y : y \notin gone)]

tree_reparent(ch, item, parent) ==
    LET cut == [p \in DOMAIN ch |-> SeqWithout(ch[p], item)]
    IN  [cut EXCEPT ![parent] = Append(@, item)]

\* ---------------------------------------------------------- the sorter
get_key == sorter_key + 1

MaxKeyItem(S) == CHOOSE i \in S : \A j \in S : sort_key[j] <= sort_key[i]
MinKeyItem(S) == CHOOSE i \in S : \A j \in S : sort_key[i] <= sort_key[j]

RECURSIVE sort(_, _)
sort(S, reverse) ==
    IF S = {} THEN <<>>
    ELSE LET first == IF reverse THEN MaxKeyItem(S) ELSE MinKeyItem(S)
         IN  <<first>> \o sort(S \ {first}, reverse)

\* ------------------------------------------------------ the dirty sets
\* Variant: the parents of the item are not marked.
dirty_items_without_parents(du, item, ancestors) == du \cup {item}

\* Variant: a request made while an update is already scheduled is dropped.
dirty_items_unless_scheduled(du, item, ancestors) ==
    IF idle_queue > 0 THEN du ELSE du \cup {item} \cup ancestors

\* request_update: the item and the chain of its parents become dirty.
dirty_items_after_request(du, item, ancestors) == du \cup {item} \cup ancestors

dirty_matrix_after_request(dm, item) == dm \cup {item}

\* Variant: async without single=True queues one idle callback per call.
async_every_call(queue) == queue + 1

\* update(): async(single=True) keeps at most one idle callback pending.
async_single(queue) == IF queue > 0 THEN queue ELSE 1

InCallback == pc \in {"hook", "view_hook"}

\* A canvas method may be called by the application between updates, or by a
\* callback of the running update_now (a bounded number of times per callback).
MayCall == pc = "idle" \/ (InCallback /\ calls < MaxHookCalls)

Called(op, arg) ==
    /\ calls' = IF InCallback THEN calls + 1 ELSE calls
    /\ lastOp' = op
    /\ lastArg' = arg

\* The operation has one argument at most, raises nothing and touches neither
\* the handles nor the constraints.
PlainExceptMatrices ==
    /\ lastArg2' = None
    /\ lastHandle' = NoHandle
    /\ lastErr' = "none"
    /\ op_log' = <<>>
    /\ UNCHANGED <<connVars, consVars, asideVars>>

Plain ==
    /\ PlainExceptMatrices
    /\ UNCHANGED matVars

TypeOK ==
    /\ children \in [0..MaxItems -> Seq(Items)]
    /\ canvas_of \subseteq Items
    /\ dirty_items \subseteq Items
    /\ dirty_matrix_items \subseteq Items
    /\ registered_views \subseteq Views
    /\ idle_queue \in 0..1
    /\ pc \in {"idle", "run", "hook", "views", "view_hook"}

Init ==
    /\ children = [p \in 0..MaxItems |-> <<>>]
    /\ canvas_of = {}
    /\ sort_key = [i \in Items |-> 0]
    /\ sorter_key = 0
    /\ dirty_items = {}
    /\ dirty_matrix_items = {}
    /\ registered_views = {}
    /\ idle_queue = 0
    /\ pc = "idle"
    /\ stage = 0
    /\ todo = <<>>
    /\ cur = None
    /\ calls = 0
    /\ local_dm = {}
    /\ dm_marked = {}
    /\ context_map = {}
    /\ views_todo = {}
    /\ exc = FALSE
    /\ trace = <<>>
    /\ requested = {}
    /\ unserved = {}
    /\ req_at_entry = {}
    /\ result = "none"
    /\ in_update = FALSE
    /\ lastOp = "init"
    /\ lastArg = None
    /\ lastArg2 = None
    /\ lastHandle = NoHandle
    /\ lastErr = "none"
    /\ op_log = <<>>
    /\ connected_to = [h \in Handles |-> None]
    /\ disconnect_cb = [h \in Handles |-> FALSE]
    /\ constraint_items = {}
    /\ constraint_handles = {}
    /\ constraint_sets = [h \in Handles |-> {}]
    /\ solver_constraints = {}
    /\ generator = None
    /\ matrix = [i \in Items |-> Identity]
    /\ matrix_i2c = [i \in Items |-> NoMatrix]
    /\ matrix_c2i = [i \in Items |-> NoMatrix]
    /\ handle_pos = [h \in Handles |-> <<0, 0>>]
    /\ chain_tools = <<>>
    /\ grabbed_tool = None
    /\ tool_event = "none"
    /\ tool_log = <<>>
    /\ tool_result = "none"
    /\ sink_port = None
    /\ glue_ports = <<>>
    /\ glue_limit = MaxDist
    /\ glue_result = <<NoPos, BigDist>>
    /\ var_value = [v \in Vars |-> 0]
    /\ var_strength = [v \in Vars |-> WEAK]
    /\ registered_constraints = <<>>
    /\ marked_constraints = {}
    /\ solving = FALSE
    /\ solve_count = [c \in ConstraintObjs |-> 0]
    /\ values_at_entry = [v \in Vars |-> 0]
    /\ last_solved = NoConstraint
    /\ solver_result = "none"
    /\ expr_op = "none"
    /\ expr_left = <<"num", 0>>
    /\ expr_right = <<"num", 0>>
    /\ expr_result = <<"none", 0, 0>>
    /\ proj_item = None
    /\ proj_point = <<0, 0>>
    /\ proj_cache = <<0, 0>>
    /\ proj_read = 0
    /\ movable_items = {}
    /\ grabbed_item = None
    /\ grabbed_handle = NoHandle
    /\ motion_handle = NoHandle
    /\ aspect_log = {}
    /\ handler_result = "none"

\* ------------------------------------------- handles and connections
LogEv(kind, item, k) == <<kind, item, k>>

RECURSIVE SetToSeq(_)
SetToSeq(S) ==
    IF S = {} THEN <<>>
    ELSE LET x == CHOOSE y \in S : TRUE IN <<x>> \o SetToSeq(S \ {x})

Reverse(s) == [k \in 1..Len(s) |-> s[Len(s) + 1 - k]]

\* Variant: the handles of the item itself are taken as well.
connections_of_and_to_item(item, all_items, ct) ==
    {h \in Handles : owner(h) \in all_items
                     /\ (ct[h] = item \/ (owner(h) = item /\ ct[h] # None))}

\* get_connected_items(item): the handles h of the items in the tree with
\* h.connected_to is item.
get_connected_items(item, all_items, ct) ==
    {h \in Handles : owner(h) \in all_items /\ ct[h] = item}

\* The calls h.disconnect() make, for the handles hs in turn: a handle whose
\* disconnect attribute is the no-op lambda runs no callback.
CallbackEvents(hs, cb) ==
    SelectSeq([k \in 1..Len(hs) |-> LogEv("callback", hs[k][1], hs[k][2])],
              LAMBDA e : cb[<<e[2], e[3]>>])

\* Variant: the handle keeps connected_to and its disconnect callback.
handles_left_connected(st, hs) ==
    [st EXCEPT !.log = st.log \o CallbackEvents(SetToSeq(hs), st.cb)]

\* for i, h in get_connected_items(item): h.disconnect();
\* h.connected_to = None; h.disconnect = lambda: 0
handles_disconnected(st, hs) ==
    [st EXCEPT !.ct = [h \in Handles |-> IF h \in hs THEN None ELSE st.ct[h]],
               !.cb = [h \in Handles |-> IF h \in hs THEN FALSE ELSE st.cb[h]],
               !.log = st.log \o CallbackEvents(SetToSeq(hs), st.cb)]

\* Canvas.remove_connections_to_item(item), on the connection state st of a
\* canvas whose tree holds all_items.
remove_connections_to_item(st, item, all_items) ==
    handles_disconnected(st, get_connected_items(item, all_items, st.ct))

ConnState ==
    [ct |-> connected_to, cb |-> disconnect_cb, log |-> <<>>, err |-> "none"]

\* ------------------------------------------------- tree operations
\* Variant: the item itself is removed before its children.
RECURSIVE remove_order_parent_first(_)
remove_order_parent_first(items) ==
    IF items = <<>> THEN <<>>
    ELSE <<Head(items)>>
         \o remove_order_parent_first(Reverse(get_children(Head(items))))
         \o remove_order_parent_first(Tail(items))

\* Canvas.remove applied to the items in turn: for child in
\* reversed(get_children(item)): remove(child); then _remove(item).
RECURSIVE remove_order(_)
remove_order(items) ==
    IF items = <<>> THEN <<>>
    ELSE remove_order(Reverse(get_children(Head(items))))
         \o <<Head(items)>>
         \o remove_order(Tail(items))

\* _remove for the items of order in turn, on the connection state st: the
\* item leaves the tree, then the handles connected to it are disconnected.
RECURSIVE RemoveEach(_, _, _)
RemoveEach(order, st, all_items) ==
    IF order = <<>> THEN st
    ELSE LET x == Head(order)
             left == all_items \ {x}
             s1 == remove_connections_to_item(st, x, left)
             s2 == [s1 EXCEPT !.log = Append(s1.log, LogEv("removed", x, 0))]
         IN  RemoveEach(Tail(order), s2, left)

\* What add does once the assertion has passed: the item gets the next sort
\* key, is appended to its parent's children, gets an empty constraint table
\* and is marked dirty through request_update.
AddEffects(item, parent) ==
    /\ canvas_of' = canvas_of \cup {item}
    /\ children' = tree_add(children, item, parent)
    /\ sorter_key' = get_key
    /\ sort_key' = [sort_key EXCEPT ![item] = get_key]
    /\ constraint_items' = constraint_items \cup {item}
    /\ constraint_handles' = {h \in constraint_handles : owner(h) # item}
    /\ constraint_sets' = [h \in Handles |->
                              IF owner(h) = item THEN {} ELSE constraint_sets[h]]
    /\ dirty_items' = dirty_items_after_request(dirty_items, item,
                            IF parent = None THEN {}
                            ELSE {parent} \cup get_ancestors(parent))
    /\ dirty_matrix_items' = dirty_matrix_after_request(dirty_matrix_items, item)
    /\ idle_queue' = async_single(idle_queue)
    /\ requested' = requested \cup {item}
    /\ UNCHANGED unserved
    /\ lastErr' = "none"

\* Variant: add without the assertion (the older revision, src/canvas.py).
add_unchecked(item, parent) == AddEffects(item, parent)

\* assert item not in self._tree.nodes: the assertion fails and add has done
\* nothing yet.
add_already_present(item, parent) ==
    /\ lastErr' = "AssertionError"
    /\ UNCHANGED <<treeVars, constraint_items, constraint_handles,
                   constraint_sets, dirty_items, dirty_matrix_items,
                   idle_queue, requested, unserved>>

\* Canvas.add(item, parent) for an item that is not in the tree.
Add(item, parent) ==
    /\ pc = "idle"
    /\ item \notin nodes
    /\ parent \in nodes \cup {None}
    /\ sorter_key < MaxAdds
    /\ AddEffects(item, parent)
    /\ Called("add", item)
    /\ lastArg2' = parent
    /\ lastHandle' = NoHandle
    /\ op_log' = <<>>
    /\ UNCHANGED <<registered_views, runVars, connVars, solver_constraints,
                   generator, matVars, asideVars>>

\* Canvas.add(item, parent) for an item that is in the tree already.
AddPresent(item, parent) ==
    /\ pc = "idle"
    /\ item \in nodes
    /\ parent \in nodes \cup {None}
    /\ add_already_present(item, parent)
    /\ Called("add", item)
    /\ lastArg2' = parent
    /\ lastHandle' = NoHandle
    /\ op_log' = <<>>
    /\ UNCHANGED <<registered_views, runVars, connVars, solver_constraints,
                   generator, matVars, asideVars>>

\* Canvas.remove(item): the children are removed first (recursively), then
\* _remove(item) clears item.canvas, takes the item out of the tree,
\* disconnects the handles connected to it, deletes its constraint table and
\* discards it from both dirty sets.
RemoveWith(item, inCallback) ==
    LET order == remove_order(<<item>>)
        gone == Range(order)
        st == RemoveEach(order, ConnState, nodes)
    IN
    /\ IF inCallback THEN InCallback /\ calls < MaxHookCalls ELSE pc = "idle"
    /\ trace' = IF inCallback
                THEN Append(trace, [kind |-> "remove", id |-> item,
                                    raised |-> FALSE, du |-> gone, dm |-> {},
                                    ctx |-> <<>>])
                ELSE trace
    /\ item \in nodes
    /\ canvas_of' = canvas_of \ gone
    /\ children' = tree_remove(children, gone)
    /\ connected_to' = st.ct
    /\ disconnect_cb' = st.cb
    /\ op_log' = st.log
    /\ constraint_items' = constraint_items \ gone
    /\ constraint_handles' = {h \in constraint_handles : owner(h) \notin gone}
    /\ constraint_sets' = [h \in Handles |->
                              IF owner(h) \in gone THEN {} ELSE constraint_sets[h]]
    /\ dirty_items' = dirty_items \ gone
    /\ dirty_matrix_items' = dirty_matrix_items \ gone
    /\ requested' = requested \ gone
    /\ unserved' = unserved \ gone
    /\ Called("remove", item)
    /\ lastArg2' = None
    /\ lastHandle' = NoHandle
    /\ lastErr' = "none"
    /\ UNCHANGED <<sort_key, sorter_key, registered_views, idle_queue, pc,
                   stage, todo, cur, local_dm, dm_marked, context_map,
                   views_todo, exc, req_at_entry, result, in_update,
                   solver_constraints, generator, matVars, asideVars>>

\* remove(item) called by the application between updates.
Remove(item) == RemoveWith(item, FALSE)

\* remove(item) called by a hook or callback of the running update_now,
\* which is noted in the trace of that update_now.
RemoveInCallback(item) == RemoveWith(item, TRUE)

\* Canvas.reparent(item, parent): only the tree changes.
Reparent(item, parent) ==
    /\ pc = "idle"
    /\ item \in nodes
    /\ parent \in (nodes \cup {None}) \ ({item} \cup Descendants(item))
    /\ children' = tree_reparent(children, item, parent)
    /\ Called("reparent", item)
    /\ Plain
    /\ UNCHANGED <<canvas_of, sort_key, sorter_key, dirty_items,
                   dirty_matrix_items, registered_views, idle_queue,
                   requested, unserved, runVars>>

\* Canvas.reparent(item, parent), the parent being one of the item's own
\* descendants: the canvas hands the call to the tree as it is, and the tree
\* moves the item, with its subtree, under the new parent.
ReparentIntoSubtree(item, parent) ==
    /\ pc = "idle"
    /\ item \in nodes
    /\ parent \in Descendants(item)
    /\ children' = tree_reparent(children, item, parent)
    /\ Called("reparent", item)
    /\ Plain
    /\ UNCHANGED <<canvas_of, sort_key, sorter_key, dirty_items,
                   dirty_matrix_items, registered_views, idle_queue,
                   requested, unserved, runVars>>

\* No item is among its own ancestors.
TreeAcyclic == \A n \in nodes : n \notin get_ancestors(n)

RegisterView(v) ==
    /\ pc = "idle"
    /\ v \notin registered_views
    /\ registered_views' = registered_views \cup {v}
    /\ Called("register_view", v)
    /\ Plain
    /\ UNCHANGED <<treeVars, dirty_items, dirty_matrix_items, idle_queue,
                   requested, unserved, runVars>>

UnregisterView(v) ==
    /\ pc = "idle"
    /\ v \in registered_views
    /\ registered_views' = registered_views \ {v}
    /\ Called("unregister_view", v)
    /\ Plain
    /\ UNCHANGED <<treeVars, dirty_items, dirty_matrix_items, idle_queue,
                   requested, unserved, runVars>>

\* ------------------------------------------------- update requests
\* Canvas.request_update(item); seen: a request made by a hook or callback
\* of the running update_now is kept in unserved.
RequestUpdateWith(item, seen) ==
    /\ MayCall
    /\ item \in nodes
    /\ dirty_items' = dirty_items_after_request(dirty_items, item,
                                                get_ancestors(item))
    /\ dirty_matrix_items' = dirty_matrix_after_request(dirty_matrix_items, item)
    /\ idle_queue' = async_single(idle_queue)
    /\ requested' = IF pc = "idle" THEN requested \cup {item} ELSE requested
    /\ unserved' = IF seen /\ pc # "idle" THEN unserved \cup {item} ELSE unserved
    /\ Called("request_update", item)
    /\ Plain
    /\ UNCHANGED <<treeVars, registered_views, runVars>>

RequestUpdate(item) == RequestUpdateWith(item, FALSE)

RequestUpdateSeen(item) == RequestUpdateWith(item, TRUE)

RequestMatrixUpdate(item) ==
    /\ MayCall
    /\ item \in nodes
    /\ dirty_matrix_items' = dirty_matrix_after_request(dirty_matrix_items, item)
    /\ idle_queue' = async_single(idle_queue)
    /\ Called("request_matrix_update", item)
    /\ Plain
    /\ UNCHANGED <<treeVars, dirty_items, registered_views, requested, unserved, runVars>>

Update ==
    /\ MayCall
    /\ idle_queue' = async_single(idle_queue)
    /\ Called("update", None)
    /\ Plain
    /\ UNCHANGED <<treeVars, dirty_items, dirty_matrix_items, registered_views,
                   requested, unserved, runVars>>

\* ------------------------------------------------- update_matrices
\* The matrices of the items and the matrix-dirty set, as update_matrix
\* reads and writes them.
MatState == [i2c |-> matrix_i2c, c2i |-> matrix_c2i, dm |-> dirty_matrix_items]

\* item._matrix_i2c = Matrix(*item.matrix); item._matrix_i2c *= parent's i2c
i2c_with_parent(local, parent_i2c) == multiply(local, parent_i2c)

\* Canvas.update_matrix(item, recursive) and Canvas.get_matrix_i2c(item,
\* calculate), which call each other.  The notification of the views and
\* request_resolve of the item's canvas constraints change neither the
\* matrices nor the dirty sets.
RECURSIVE update_matrix(_, _, _)
RECURSIVE update_matrix_children(_, _)
RECURSIVE get_matrix_i2c(_, _, _)

get_matrix_i2c(st, item, calculate) ==
    IF st.i2c[item] = NoMatrix \/ calculate
    THEN update_matrix(st, item, FALSE)
    ELSE st

update_matrix(st, item, recursive) ==
    LET parent == get_parent(item)
        st1 == [st EXCEPT !.dm = @ \ {item}]
    IN  IF parent # None /\ parent \in st1.dm
        THEN \* the parent takes care of updating the child
             update_matrix(st1, parent, TRUE)
        ELSE LET st2 == IF parent # None
                        THEN get_matrix_i2c(st1, parent, FALSE)
                        ELSE st1
                 i2c == IF parent # None
                        THEN i2c_with_parent(matrix[item], st2.i2c[parent])
                        ELSE matrix[item]
                 st3 == [st2 EXCEPT !.i2c[item] = i2c,
                                    !.c2i[item] = invert(i2c)]
             IN  IF recursive
                 THEN update_matrix_children(st3, get_children(item))
                 ELSE st3

update_matrix_children(st, chs) ==
    IF chs = <<>> THEN st
    ELSE update_matrix_children(update_matrix(st, Head(chs), TRUE), Tail(chs))

\* Canvas.get_matrix_c2i(item, calculate)
get_matrix_c2i(st, item, calculate) ==
    IF st.c2i[item] = NoMatrix \/ calculate
    THEN update_matrix(st, item, FALSE)
    ELSE st

\* The orders in which set.pop() may hand out the items of S.
Orders(S) ==
    {o \in [1..Cardinality(S) -> S] : \A j, k \in DOMAIN o : j # k => o[j] # o[k]}

\* Canvas.update_matrices(): "while dirty_items: item = dirty_items.pop();
\* self.update_matrix(item)", the pops coming in the given order; an item
\* that update_matrix has discarded already is not popped.
RECURSIVE update_matrices(_, _)
update_matrices(st, order) ==
    IF order = <<>> THEN st
    ELSE IF Head(order) \in st.dm
         THEN update_matrices(update_matrix(st, Head(order), TRUE), Tail(order))
         ELSE update_matrices(st, Tail(order))

SetMatState(st) ==
    /\ InBounds(st.i2c)
    /\ matrix_i2c' = st.i2c
    /\ matrix_c2i' = st.c2i
    /\ dirty_matrix_items' = st.dm

\* An operation of the application between updates that touches the
\* matrices.
MatrixOp(op, item) ==
    /\ pc = "idle"
    /\ Called(op, item)
    /\ PlainExceptMatrices
    /\ UNCHANGED <<treeVars, dirty_items, registered_views, requested, unserved, runVars,
                   handle_pos>>

\* item.matrix = m; canvas.request_matrix_update(item)
MoveItem(item, m) ==
    /\ item \in nodes
    /\ matrix' = [matrix EXCEPT ![item] = m]
    /\ dirty_matrix_items' = dirty_matrix_after_request(dirty_matrix_items, item)
    /\ idle_queue' = async_single(idle_queue)
    /\ MatrixOp("move_item", item)
    /\ UNCHANGED <<matrix_i2c, matrix_c2i>>

\* Canvas.get_matrix_i2c(item, calculate), called by the application.
GetMatrixI2C(item, calculate) ==
    /\ item \in nodes
    /\ SetMatState(get_matrix_i2c(MatState, item, calculate))
    /\ MatrixOp("get_matrix_i2c", item)
    /\ UNCHANGED <<matrix, idle_queue>>

\* Canvas.update_matrices(), called by the application.
UpdateMatricesCall(order) ==
    /\ order \in Orders(dirty_matrix_items)
    /\ SetMatState(update_matrices(MatState, order))
    /\ MatrixOp("update_matrices", None)
    /\ UNCHANGED <<matrix, idle_queue>>

\* ------------------------------------------------- _update_handles
\* The positions handles are moved to by the application.
HandleCoords == {0, 1}

\* Matrix.translate(tx, ty): the translation is applied before the matrix.
translate(m, tx, ty) == <<m[1], m[1] * tx + m[2], m[1] * ty + m[3]>>

HandleState == [matrix |-> matrix, pos |-> handle_pos]

\* Variant: only the first handle is shifted.
shift_first_handle(pos, item, dx, dy) ==
    [pos EXCEPT ![<<item, 1>>] = <<@[1] - dx, @[2] - dy>>]

\* for h in handles: h.x._value -= x (and likewise for y).
shift_handles(pos, item, dx, dy) ==
    [h \in Handles |-> IF owner(h) = item
                       THEN <<pos[h][1] - dx, pos[h][2] - dy>>
                       ELSE pos[h]]

\* Canvas._update_handles(item): x, y are the position of the first handle;
\* for each coordinate that is not zero the matrix is translated by it and
\* it is subtracted from every handle.
update_handles(st, item) ==
    LET x == st.pos[<<item, 1>>][1]
        y == st.pos[<<item, 1>>][2]
        st1 == IF x # 0
               THEN [matrix |-> [st.matrix EXCEPT ![item] = translate(@, x, 0)],
                     pos |-> shift_handles(st.pos, item, x, 0)]
               ELSE st
    IN  IF y # 0
        THEN [matrix |-> [st1.matrix EXCEPT ![item] = translate(@, 0, y)],
              pos |-> shift_handles(st1.pos, item, 0, y)]
        ELSE st1

\* for item in dirty_matrix_items: self._update_handles(item)
RECURSIVE update_handles_each(_, _)
update_handles_each(st, S) ==
    IF S = {} THEN st
    ELSE LET item == CHOOSE i \in S : TRUE
         IN  update_handles_each(update_handles(st, item), S \ {item})

SetHandleState(st) ==
    /\ InBounds(st.matrix)
    /\ matrix' = st.matrix
    /\ handle_pos' = st.pos

\* An operation on the handles of an item between updates.
HandleOp(op, item) ==
    /\ pc = "idle"
    /\ Called(op, item)
    /\ PlainExceptMatrices
    /\ UNCHANGED <<treeVars, dirty_items, dirty_matrix_items, registered_views,
                   idle_queue, requested, unserved, runVars, matrix_i2c, matrix_c2i>>

\* h.pos = (x, y), by the application; the item need not be in the canvas.
MoveHandle(h, x, y) ==
    /\ handle_pos' = [handle_pos EXCEPT ![h] = <<x, y>>]
    /\ HandleOp("move_handle", owner(h))
    /\ UNCHANGED matrix

\* canvas._update_handles(item), called as in its doctest; the canvas is not
\* asked whether it holds the item.  The translation the matrix gathers is
\* kept within MaxShift.
UpdateHandlesCall(item) ==
    /\ LET m == update_handles(HandleState, item).matrix[item]
       IN  Abs(m[2]) <= MaxShift /\ Abs(m[3]) <= MaxShift
    /\ SetHandleState(update_handles(HandleState, item))
    /\ HandleOp("_update_handles", item)

\* ------------------------------------------------- update_now
\* Variant: the second update_matrices is run after the update hooks.
PipelineMatricesLast == <<"pre", "matrices", "solve", "post", "matrices">>

\* The body of update_now between "try" and "finally", in order.
Pipeline == <<"pre", "matrices", "solve", "matrices", "post">>

\* The Context objects of one update_now: the one made for an item in the
\* pre_update loop and kept in context_map, and one made in the update loop.
NoContext == <<>>
PreContext(item) == <<"pre_update", item>>
FreshContext(item) == <<"update", item>>

Event(kind, id, raised, du, dm) ==
    [kind |-> kind, id |-> id, raised |-> raised, du |-> du, dm |-> dm,
     ctx |-> NoContext]

Step(kind, id, raised) == Event(kind, id, raised, {}, {})

\* The items seen in the matrix-dirty set so far by the running update_now,
\* once the running hook has ended: those marked during the pre_update hooks
\* and the solver run are added to those present at the start.
marked_after_hook ==
    IF Pipeline[stage] \in {"pre", "solve"}
    THEN dm_marked \cup dirty_matrix_items ELSE dm_marked

\* Variant: the update loop makes a new Context for every item.
new_context_always(cm, item) == FreshContext(item)

\* try: c = context_map[item] / except KeyError: c = Context(cairo=...)
update_context(cm, item) ==
    IF item \in cm THEN PreContext(item) ELSE FreshContext(item)

\* The context the running hook was called with.
hook_context ==
    IF Pipeline[stage] = "pre" THEN PreContext(cur)
    ELSE IF Pipeline[stage] = "post" THEN update_context(context_map, cur)
    ELSE NoContext

\* What the running hook (or the solver) did, for the trace.
HookStep(raised) ==
    [Step(Pipeline[stage], cur, raised) EXCEPT !.ctx = hook_context]

\* Variant: the hooks are called without try/except.
hook_exception_never_caught(kind) == FALSE

\* try: ... except Exception around item.pre_update and item.update.
hook_exception_caught(kind) == kind \in {"pre", "post"}

\* Variant: no finally block, the exception leaves update_now at once.
uncaught_exception_skips_finally == "idle"

\* try: ... finally: an exception that is not caught runs the finally block.
uncaught_exception_pc == "views"

\* Variant: the views are only told when there are dirty items.
views_if_dirty(views) == IF dirty_items = {} THEN {} ELSE views

\* _update_views(dirty_items, dirty_matrix_items) calls every registered view.
views_to_notify(views) == views

\* Variant: the guard is released only by a call that returns (it is reset
\* after the work, not in a finally block).
guard_kept_when_raised(raised) == raised

\* The guard of update_now after a call has left it, returning or raising.
guard_released(raised) == FALSE

\* Leave update_now: the nonrecursive guard is released and the locals of the
\* call are gone.
Return(raised) ==
    /\ pc' = "idle"
    /\ result' = IF raised THEN "raised" ELSE "returned"
    /\ in_update' = guard_released(raised)
    /\ exc' = FALSE
    /\ stage' = 0
    /\ todo' = <<>>
    /\ cur' = None
    /\ calls' = 0
    /\ local_dm' = {}
    /\ dm_marked' = {}
    /\ context_map' = {}
    /\ views_todo' = {}
    /\ trace' = <<>>
    /\ req_at_entry' = {}
    /\ unserved' = {}
    /\ lastOp' = "update_now_return"
    /\ Plain
    /\ lastArg' = None

\* An exception leaves the try block.
Propagate(events) ==
    IF uncaught_exception_pc = "views"
    THEN /\ pc' = "views"
         /\ views_todo' = views_to_notify(registered_views)
         /\ exc' = TRUE
         /\ trace' = events
         /\ lastOp' = "step"
         /\ Plain
         /\ lastArg' = None
         /\ in_update' = TRUE
         /\ UNCHANGED <<stage, cur, calls, context_map, result, unserved>>
    ELSE Return(TRUE)

\* Move to stage s of the pipeline, or to the finally block after the last.
EnterStage(s) ==
    IF s > Len(Pipeline)
    THEN /\ pc' = "views"
         /\ views_todo' = views_to_notify(registered_views)
         /\ UNCHANGED <<stage, todo>>
    ELSE /\ pc' = "run"
         /\ stage' = s
         /\ todo' = IF Pipeline[s] = "post" THEN sort(dirty_items, TRUE) ELSE todo
         /\ UNCHANGED views_todo

\* update_now entered while no update_now is running: sort the dirty items
\* leaves first, copy the matrix-dirty set, obtain the cairo context and
\* normalise the handles of the matrix-dirty items.
Begin(contextRaises) ==
    /\ pc = "idle"
    /\ ~in_update
    /\ requested' = {}
    /\ IF contextRaises
       THEN /\ Propagate(<<>>)
            /\ uncaught_exception_pc = "views" =>
                 /\ todo' = sort(dirty_items, TRUE)
                 /\ local_dm' = dirty_matrix_items
                 /\ dm_marked' = dirty_matrix_items
                 /\ req_at_entry' = requested
       ELSE /\ stage' = 1
            /\ pc' = "run"
            /\ todo' = sort(dirty_items, TRUE)
            /\ local_dm' = dirty_matrix_items
            /\ dm_marked' = dirty_matrix_items
            /\ req_at_entry' = requested
            /\ SetHandleState(update_handles_each(HandleState,
                                                  dirty_matrix_items))
            /\ lastOp' = "step"
            /\ PlainExceptMatrices
            /\ lastArg' = None
            /\ in_update' = TRUE
            /\ UNCHANGED <<unserved, cur, calls, context_map, views_todo, exc,
                           trace, result, matrix_i2c, matrix_c2i>>
    /\ UNCHANGED <<treeVars, dirty_items, dirty_matrix_items, registered_views>>

UpdateNow(contextRaises) ==
    /\ Begin(contextRaises)
    /\ UNCHANGED idle_queue

\* The idle callback scheduled by update() runs update_now.
SchedulerFire(contextRaises) ==
    /\ idle_queue > 0
    /\ idle_queue' = idle_queue - 1
    /\ Begin(contextRaises)

\* Variant: without the guard the inner call runs to its finally block and
\* clears the dirty items.
ReentrantUpdateNowClears ==
    /\ InCallback
    /\ calls < MaxHookCalls
    /\ dirty_items' = {}
    /\ Called("update_now_reentrant", None)
    /\ Plain
    /\ UNCHANGED <<treeVars, dirty_matrix_items, registered_views,
                   idle_queue, requested, unserved, runVars>>

\* @nonrecursive: update_now called while it is running returns at once.
ReentrantUpdateNow ==
    /\ InCallback
    /\ in_update
    /\ calls < MaxHookCalls
    /\ Called("update_now_reentrant", None)
    /\ Plain
    /\ UNCHANGED <<treeVars, dirty_items, dirty_matrix_items, registered_views,
                   idle_queue, requested, unserved, runVars>>

InLoop == pc = "run" /\ Pipeline[stage] \in {"pre", "post"}

\* for item in dirty_items: ... item.pre_update(c) / item.update(c)
LoopCall ==
    /\ InLoop
    /\ todo # <<>>
    /\ cur' = Head(todo)
    /\ todo' = Tail(todo)
    /\ context_map' = IF Pipeline[stage] = "pre"
                      THEN context_map \cup {Head(todo)} ELSE context_map
    /\ unserved' = IF Pipeline[stage] = "post"
                    THEN unserved \ {Head(todo)} ELSE unserved
    /\ pc' = "hook"
    /\ calls' = 0
    /\ lastOp' = "step"
    /\ Plain
    /\ lastArg' = None
    /\ UNCHANGED <<treeVars, dirty_items, dirty_matrix_items, registered_views,
                   idle_queue, stage, local_dm, dm_marked, views_todo, exc, trace,
                   requested, req_at_entry, result, in_update>>

LoopEnd ==
    /\ InLoop
    /\ todo = <<>>
    /\ EnterStage(stage + 1)
    /\ lastOp' = "step"
    /\ Plain
    /\ lastArg' = None
    /\ UNCHANGED <<treeVars, dirty_items, dirty_matrix_items, registered_views,
                   idle_queue, cur, calls, local_dm, dm_marked, context_map, exc,
                   trace,
                   requested, unserved, req_at_entry, result, in_update>>

\* update_matrices(): pops items until the matrix-dirty set is empty.
UpdateMatrices ==
    /\ pc = "run"
    /\ Pipeline[stage] = "matrices"
    /\ \E order \in Orders(dirty_matrix_items) :
          SetMatState(update_matrices(MatState, order))
    /\ UNCHANGED <<matrix, handle_pos>>
    /\ trace' = Append(trace, Step("matrices", None, FALSE))
    /\ EnterStage(stage + 1)
    /\ lastOp' = "step"
    /\ PlainExceptMatrices
    /\ lastArg' = None
    /\ UNCHANGED <<treeVars, dirty_items, registered_views, idle_queue, cur,
                   calls, local_dm, dm_marked, context_map, exc, requested, unserved,
                   req_at_entry,
                   result, in_update>>

\* self._solver.solve()
SolveCall ==
    /\ pc = "run"
    /\ Pipeline[stage] = "solve"
    /\ pc' = "hook"
    /\ cur' = None
    /\ calls' = 0
    /\ lastOp' = "step"
    /\ Plain
    /\ lastArg' = None
    /\ UNCHANGED <<treeVars, dirty_items, dirty_matrix_items, registered_views,
                   idle_queue, stage, todo, local_dm, dm_marked, context_map,
                   views_todo,
                   exc, trace, requested, unserved, req_at_entry, result, in_update>>

\* The running hook (or the solver) returns.
HookReturn ==
    /\ pc = "hook"
    /\ trace' = Append(trace, HookStep(FALSE))
    /\ IF Pipeline[stage] = "solve"
       THEN /\ local_dm' = local_dm \cup dirty_matrix_items
            /\ EnterStage(stage + 1)
       ELSE /\ pc' = "run"
            /\ UNCHANGED <<local_dm, stage, todo, views_todo>>
    /\ dm_marked' = marked_after_hook
    /\ cur' = None
    /\ lastOp' = "step"
    /\ Plain
    /\ lastArg' = None
    /\ UNCHANGED <<treeVars, dirty_items, dirty_matrix_items, registered_views,
                   idle_queue, calls, context_map, exc, requested, unserved, req_at_entry,
                   result, in_update>>

\* The running hook (or the solver) raises.
HookRaise ==
    /\ pc = "hook"
    /\ IF hook_exception_caught(Pipeline[stage])
       THEN /\ pc' = "run"
            /\ trace' = Append(trace, HookStep(TRUE))
            /\ cur' = None
            /\ lastOp' = "step"
            /\ Plain
            /\ lastArg' = None
            /\ dm_marked' = marked_after_hook
            /\ UNCHANGED <<stage, todo, calls, local_dm, context_map,
                           views_todo, exc, req_at_entry, result, in_update, unserved>>
       ELSE /\ Propagate(Append(trace, HookStep(TRUE)))
            /\ uncaught_exception_pc = "views" =>
                 /\ dm_marked' = marked_after_hook
                 /\ UNCHANGED <<todo, local_dm, req_at_entry>>
    /\ UNCHANGED <<treeVars, dirty_items, dirty_matrix_items, registered_views,
                   idle_queue, requested>>

\* finally: _update_views(self._dirty_items, dirty_matrix_items), one view
\* at a time.
ViewCall(v) ==
    /\ pc = "views"
    /\ v \in views_todo
    /\ views_todo' = views_todo \ {v}
    /\ trace' = Append(trace, Event("view", v, FALSE, dirty_items, local_dm))
    /\ pc' = "view_hook"
    /\ cur' = v
    /\ calls' = 0
    /\ lastOp' = "step"
    /\ Plain
    /\ lastArg' = None
    /\ UNCHANGED <<treeVars, dirty_items, dirty_matrix_items, registered_views,
                   idle_queue, stage, todo, local_dm, dm_marked, context_map, exc,
                   requested, unserved, req_at_entry, result, in_update>>

ViewReturn ==
    /\ pc = "view_hook"
    /\ pc' = "views"
    /\ cur' = None
    /\ lastOp' = "step"
    /\ Plain
    /\ lastArg' = None
    /\ UNCHANGED <<treeVars, dirty_items, dirty_matrix_items, registered_views,
                   idle_queue, stage, todo, calls, local_dm, dm_marked,
                   context_map,
                   views_todo, exc, trace, requested, unserved, req_at_entry, result, in_update>>

\* finally: self._dirty_items.clear(); then update_now returns, or the
\* exception that entered the finally block goes on to the caller.
Finally ==
    /\ pc = "views"
    /\ views_todo = {}
    /\ dirty_items' = {}
    /\ Return(exc)
    /\ UNCHANGED <<treeVars, dirty_matrix_items, registered_views, idle_queue,
                   requested>>

\* ------------------------------------------- canvas constraints
\* An operation on the constraint table: the tree, the dirty sets and the
\* handles are left alone.
ConstraintOp(op, item) ==
    /\ pc = "idle"
    /\ Called(op, item)
    /\ lastHandle' = NoHandle
    /\ lastArg2' = None
    /\ op_log' = <<>>
    /\ UNCHANGED <<treeVars, dirty_items, dirty_matrix_items, registered_views,
                   idle_queue, requested, unserved, runVars, connVars, matVars, asideVars>>

\* Canvas.add_canvas_constraint(item, handle, c), handle being <<item, k>>.
AddCanvasConstraint(item, k, c) ==
    /\ ConstraintOp("add_canvas_constraint", item)
    /\ IF item \notin constraint_items
       THEN /\ lastErr' = "ValueError"
            /\ UNCHANGED consVars
       ELSE /\ lastErr' = "none"
            /\ constraint_handles' = constraint_handles \cup {<<item, k>>}
            /\ constraint_sets' =
                 [constraint_sets EXCEPT ![<<item, k>>] = @ \cup {c}]
            /\ solver_constraints' = solver_constraints \cup {c}
            /\ UNCHANGED <<constraint_items, generator>>

\* Canvas.remove_canvas_constraint(item, handle, c): c = None removes all the
\* constraints of the handle; otherwise the constraint leaves the solver and
\* then the set of the handle.
RemoveCanvasConstraint(item, k, c) ==
    LET h == <<item, k>> IN
    /\ ConstraintOp("remove_canvas_constraint", item)
    /\ IF item \notin constraint_items
       THEN /\ lastErr' = "ValueError"
            /\ UNCHANGED consVars
       ELSE IF c = None
       THEN IF h \notin constraint_handles
            THEN /\ lastErr' = "KeyError"
                 /\ UNCHANGED consVars
            ELSE /\ lastErr' = "none"
                 /\ solver_constraints' = solver_constraints \ constraint_sets[h]
                 /\ constraint_sets' = [constraint_sets EXCEPT ![h] = {}]
                 /\ UNCHANGED <<constraint_items, constraint_handles, generator>>
       ELSE /\ solver_constraints' = solver_constraints \ {c}
            /\ IF h \notin constraint_handles \/ c \notin constraint_sets[h]
               THEN /\ lastErr' = "KeyError"
                    /\ UNCHANGED constraint_sets
               ELSE /\ lastErr' = "none"
                    /\ constraint_sets' = [constraint_sets EXCEPT ![h] = @ \ {c}]
            /\ UNCHANGED <<constraint_items, constraint_handles, generator>>

\* Canvas.canvas_constraints(item): the function body holds a yield, so the
\* call only makes a generator; nothing of the body has run yet.
CanvasConstraints(item) ==
    /\ ConstraintOp("canvas_constraints", item)
    /\ generator' = item
    /\ lastErr' = "none"
    /\ UNCHANGED <<constraint_items, constraint_handles, constraint_sets,
                   solver_constraints>>

\* The first next() on the generator runs the body up to the first yield:
\* the check of the item happens here.
GeneratorNext ==
    /\ generator # None
    /\ ConstraintOp("generator_next", generator)
    /\ generator' = None
    /\ lastErr' = IF generator \notin constraint_items
                  THEN "ValueError" ELSE "none"
    /\ UNCHANGED <<constraint_items, constraint_handles, constraint_sets,
                   solver_constraints>>

\* ------------------------------------------------- connections
\* Connections.get_connection(handle)
get_connection(st, h) == st.ct[h] # None

\* Connections.disconnect_item(item, handle): the record of the handle is
\* removed and its callback is called; nothing happens without a record.
disconnect_item(st, h) ==
    IF ~get_connection(st, h) THEN st
    ELSE [st EXCEPT !.ct = [st.ct EXCEPT ![h] = None],
                    !.cb = [st.cb EXCEPT ![h] = FALSE],
                    !.log = st.log \o <<LogEv("unregister", h[1], h[2])>>
                                   \o CallbackEvents(<<h>>, st.cb)]

\* Connections.connect_item(item, handle, connected, port, constraint,
\* callback): a connection the handle already has is removed first.
connect_item(st, h, connected, callback) ==
    LET s1 == disconnect_item(st, h)
    IN  [s1 EXCEPT !.ct = [s1.ct EXCEPT ![h] = connected],
                   !.cb = [s1.cb EXCEPT ![h] = callback],
                   !.log = Append(s1.log, LogEv("register", h[1], h[2]))]

\* ItemConnector.connect_handle(sink, callback): sink.constraint asserts that
\* glue has found a port.
connect_handle(st, h, sink, callback) ==
    IF ~sink.port THEN [st EXCEPT !.err = "AssertionError"]
    ELSE connect_item(st, h, sink.item, callback)

\* Variant: the new connection is made before the old one is disconnected.
connect_then_disconnect(st, h, sink, allow) ==
    LET s1 == IF allow THEN connect_handle(st, h, sink, FALSE) ELSE st
    IN  IF get_connection(st, h) THEN disconnect_item(s1, h) ELSE s1

\* Variant: allow(sink) is asked before the handle is disconnected.
connect_unless_refused(st, h, sink, allow) ==
    IF ~allow THEN st
    ELSE connect_handle(IF get_connection(st, h) THEN disconnect_item(st, h)
                        ELSE st, h, sink, FALSE)

\* ItemConnector.connect(sink): disconnect when connected, stop unless
\* allow(sink), glue, connect_handle.
connect(st, h, sink, allow) ==
    LET s1 == IF get_connection(st, h) THEN disconnect_item(st, h) ELSE st
    IN  IF ~allow THEN s1 ELSE connect_handle(s1, h, sink, FALSE)

\* ConnectHandleTool.connect(item, handle, vpos): disconnect when connected,
\* connect when glue has found a sink.
tool_connect(st, h, has_sink, sink, allow) ==
    LET s1 == IF get_connection(st, h) THEN disconnect_item(st, h) ELSE st
    IN  IF has_sink THEN connect(s1, h, sink, allow) ELSE s1

Sink(item, port) == [item |-> item, port |-> port]

\* An operation on the connections: st is the connection state it leaves.
ConnectionOp(op, h, item, st) ==
    /\ pc = "idle"
    /\ connected_to' = st.ct
    /\ disconnect_cb' = st.cb
    /\ op_log' = st.log
    /\ lastErr' = st.err
    /\ Called(op, item)
    /\ lastHandle' = h
    /\ lastArg2' = None
    /\ UNCHANGED <<treeVars, dirty_items, dirty_matrix_items, registered_views,
                   idle_queue, requested, unserved, runVars, consVars, matVars, asideVars>>

ConnectorConnect(h, connected, port, allow) ==
    /\ {owner(h), connected} \subseteq nodes
    /\ ConnectionOp("connect", h, connected,
                    connect(ConnState, h, Sink(connected, port), allow))

ConnectorConnectHandle(h, connected, port, callback) ==
    /\ {owner(h), connected} \subseteq nodes
    /\ ConnectionOp("connect_handle", h, None,
                    connect_handle(ConnState, h, Sink(connected, port), callback))

ConnectorDisconnect(h) ==
    /\ ConnectionOp("disconnect", h, None, disconnect_item(ConnState, h))

ToolConnect(h, has_sink, connected, port, allow) ==
    /\ {owner(h), connected} \subseteq nodes
    /\ ConnectionOp("tool_connect", h, None,
                    tool_connect(ConnState, h, has_sink,
                                 Sink(connected, port), allow))

\* Canvas.remove_connections_to_item(item), called by the application.
RemoveConnectionsToItem(item) ==
    /\ ConnectionOp("remove_connections_to_item", NoHandle, item,
                    remove_connections_to_item(ConnState, item, nodes))

Next ==
    \/ \E i \in Items, p \in Items \cup {None} : Add(i, p)
    \/ \E i \in Items : Remove(i)
    \/ \E i \in Items, p \in Items \cup {None} : Reparent(i, p)
    \/ \E v \in Views : RegisterView(v)
    \/ \E v \in Views : UnregisterView(v)
    \/ \E i \in Items : RequestUpdate(i)
    \/ \E i \in Items : RequestMatrixUpdate(i)
    \/ Update
    \/ \E b \in BOOLEAN : UpdateNow(b)
    \/ \E b \in BOOLEAN : SchedulerFire(b)
    \/ ReentrantUpdateNow
    \/ LoopCall
    \/ LoopEnd
    \/ UpdateMatrices
    \/ SolveCall
    \/ HookReturn
    \/ HookRaise
    \/ \E v \in Views : ViewCall(v)
    \/ ViewReturn
    \/ Finally

Spec == Init /\ [][Next]_vars

\* The canvas between updates, with its constraint table and the solver.
NextConstraints ==
    \/ \E i \in Items, p \in Items \cup {None} : Add(i, p)
    \/ \E i \in Items, p \in Items \cup {None} : AddPresent(i, p)
    \/ \E i \in Items : Remove(i)
    \/ \E i \in Items, k \in 1..MaxHandles, c \in Cons :
          AddCanvasConstraint(i, k, c)
    \/ \E i \in Items, k \in 1..MaxHandles, c \in Cons \cup {None} :
          RemoveCanvasConstraint(i, k, c)
    \/ \E i \in Items : CanvasConstraints(i)
    \/ GeneratorNext

SpecConstraints == Init /\ [][NextConstraints]_vars

\* The canvas between updates, with the connections of its items' handles.
NextConnections ==
    \/ \E i \in Items, p \in Items \cup {None} : Add(i, p)
    \/ \E i \in Items : Remove(i)
    \/ \E h \in Connectable, i \in Items, port, allow \in BOOLEAN :
          ConnectorConnect(h, i, port, allow)
    \/ \E h \in Connectable, i \in Items, port, callback \in BOOLEAN :
          ConnectorConnectHandle(h, i, port, callback)
    \/ \E h \in Connectable : ConnectorDisconnect(h)
    \/ \E h \in Connectable, i \in Items, has_sink, port, allow \in BOOLEAN :
          ToolConnect(h, has_sink, i, port, allow)
    \/ \E i \in Items : RemoveConnectionsToItem(i)

SpecConnections == Init /\ [][NextConnections]_vars

\* The tree of the canvas, any parent given to reparent.  On a tree with a
\* cycle the recursion of remove and the ancestor walk of request_update do
\* not come to an end: they have no step.
NextTree ==
    \/ \E i \in Items, p \in Items \cup {None} : Add(i, p)
    \/ \E i \in Items, p \in Items \cup {None} : Reparent(i, p)
    \/ \E i \in Items, p \in Items : ReparentIntoSubtree(i, p)
    \/ TreeAcyclic /\ \E i \in Items : Remove(i)
    \/ TreeAcyclic /\ \E i \in Items : RequestUpdate(i)

SpecTree == Init /\ [][NextTree]_vars

\* ------------------------------------------------- the tool chain
\* The event types of Tool.EVENT_HANDLERS that a view passes on, and one
\* that has no handler.
HandledEvents ==
    {"button_press", "button_release", "2button_press", "3button_press",
     "motion_notify", "key_press", "key_release", "scroll"}
EventTypes == HandledEvents \cup {"enter_notify"}

FORCE_UNGRAB_EVENTS == {"2button_press", "3button_press"}

\* What the handler of a tool does with the event: it returns a true or a
\* false value, or it raises.
Outcomes == {"true", "false", "raised"}

ChainState == [grabbed |-> grabbed_tool, log |-> <<>>, result |-> "none"]

ToolCall(tool, type, outcome) == <<tool, type, outcome>>

\* Variant: grab(tool) takes the tool whether or not one is grabbed.
grab_always(st, tool) ==
    [st EXCEPT !.log = Append(@, ToolCall(tool, "grab", "false")),
               !.grabbed = tool]

\* ToolChain.grab(tool): no tool of the repository has an on_grab handler,
\* so Tool._dispatch returns False for the GRAB event.
grab(st, tool) ==
    IF st.grabbed = None
    THEN [st EXCEPT !.log = Append(@, ToolCall(tool, "grab", "false")),
                    !.grabbed = tool]
    ELSE st

\* ToolChain.ungrab(tool): "if self._grabbed_tool is tool" holds for None
\* when no tool is grabbed, and None has no method handle.
ungrab(st, tool) ==
    IF st.grabbed = tool
    THEN IF tool = None
         THEN [st EXCEPT !.result = "AttributeError"]
         ELSE [st EXCEPT !.log = Append(@, ToolCall(tool, "ungrab", "false")),
                         !.grabbed = None]
    ELSE st

\* ToolChain.validate_grabbed_tool(event)
validate_grabbed_tool(st, type) ==
    IF type \in FORCE_UNGRAB_EVENTS THEN ungrab(st, st.grabbed) ELSE st

\* Variant: the grabbed tool is released after its handler has returned.
release_unless_raised(st, type) ==
    IF type = "button_release" /\ st.result # "raised"
    THEN ungrab(st, st.grabbed)
    ELSE st

\* finally: if event.type == BUTTON_RELEASE: self.ungrab(self._grabbed_tool)
release_finally(st, type) ==
    IF type = "button_release" THEN ungrab(st, st.grabbed) ELSE st

\* return self._grabbed_tool.handle(event), with its finally clause.
handle_grabbed(st, type, beh) ==
    LET tool == st.grabbed
        called == [st EXCEPT !.log = Append(@, ToolCall(tool, type, beh[tool])),
                             !.result = beh[tool]]
    IN  release_finally(called, type)

\* for tool in self._tools: rt = tool.handle(event); if rt: ...; return rt
\* A tool has a handler called only for an event type of EVENT_HANDLERS;
\* for another type Tool._dispatch returns False.
RECURSIVE handle_chain(_, _, _, _)
handle_chain(st, tools, type, beh) ==
    IF tools = <<>> THEN st
    ELSE LET tool == Head(tools) IN
         IF type \notin HandledEvents
         THEN handle_chain(st, Tail(tools), type, beh)
         ELSE LET called == [st EXCEPT !.log = Append(@, ToolCall(tool, type,
                                                                 beh[tool]))]
              IN  CASE beh[tool] = "raised" -> [called EXCEPT !.result = "raised"]
                    [] beh[tool] = "true" ->
                         [(IF type = "button_press" THEN grab(called, tool)
                           ELSE called) EXCEPT !.result = "true"]
                    [] OTHER -> handle_chain(called, Tail(tools), type, beh)

\* ToolChain.handle(event)
chain_handle(st, type, beh) ==
    LET validated == validate_grabbed_tool(st, type) IN
    IF validated.result = "AttributeError" THEN validated
    ELSE IF validated.grabbed # None /\ type \in HandledEvents
         THEN handle_grabbed(validated, type, beh)
         ELSE handle_chain(validated, chain_tools, type, beh)

\* An operation on the tool chain: the canvas is left alone.
ChainOpOn(op, tool) ==
    /\ pc = "idle"
    /\ lastOp' = op
    /\ lastArg' = tool
    /\ lastArg2' = None
    /\ lastHandle' = NoHandle
    /\ lastErr' = "none"
    /\ op_log' = <<>>
    /\ UNCHANGED <<treeVars, dirty_items, dirty_matrix_items, registered_views,
                   idle_queue, calls, requested, unserved, runVars, connVars, consVars,
                   matVars, glueVars, solverVars, exprVars, projVars,
                   dragVars>>

ChainOp(op) == ChainOpOn(op, None)

\* ToolChain.append(tool)
ChainAppend ==
    /\ Len(chain_tools) < MaxTools
    /\ chain_tools' = Append(chain_tools, Len(chain_tools) + 1)
    /\ ChainOp("append")
    /\ UNCHANGED <<grabbed_tool, tool_event, tool_log, tool_result>>

\* ToolChain.handle(event): the view passes an event to its tool chain.
ChainHandle(type, beh) ==
    LET st == chain_handle(ChainState, type, beh) IN
    /\ grabbed_tool' = st.grabbed
    /\ tool_log' = st.log
    /\ tool_result' = st.result
    /\ tool_event' = type
    /\ ChainOp("handle")
    /\ UNCHANGED chain_tools

\* ToolChain.grab(tool), called by a tool or by the application.
ChainGrab(tool) ==
    LET st == grab(ChainState, tool) IN
    /\ grabbed_tool' = st.grabbed
    /\ tool_log' = st.log
    /\ tool_result' = st.result
    /\ tool_event' = "grab"
    /\ ChainOpOn("grab", tool)
    /\ UNCHANGED chain_tools

\* ToolChain.ungrab(tool), called by a tool or by the application.
ChainUngrab(tool) ==
    LET st == ungrab(ChainState, tool) IN
    /\ grabbed_tool' = st.grabbed
    /\ tool_log' = st.log
    /\ tool_result' = st.result
    /\ tool_event' = "ungrab"
    /\ ChainOpOn("ungrab", tool)
    /\ UNCHANGED chain_tools

NextTools ==
    \/ ChainAppend
    \/ \E type \in EventTypes, beh \in [Tools -> Outcomes] : ChainHandle(type, beh)

SpecTools == Init /\ [][NextTools]_vars

\* The tool chain with events and with direct calls of grab and ungrab.
NextGrab ==
    \/ ChainAppend
    \/ \E type \in EventTypes, beh \in [Tools -> Outcomes] : ChainHandle(type, beh)
    \/ \E t \in Tools : ChainGrab(t)
    \/ \E t \in Tools : ChainUngrab(t)

SpecGrab == Init /\ [][NextGrab]_vars

\* ------------------------------------------------- the connection sink
\* The truth value of a position in "max_dist if glue_pos else 1e4": a
\* tuple is true unless it is empty, None is false.
Truthy(pos) == pos # NoPos

\* What port.glue(pos) gives for the k-th port of the item: a glue position
\* (the first port's is the origin) and the distance d to it.
PortGlue(k, d) == <<(<<k - 1, 0>>), d>>

\* The ports of the item as glue(pos) meets them: whether the port is
\* connectable and what its glue(pos) returns.
Port(connectable, k, d) ==
    [d |-> PortGlue(k, d)[2], connectable |-> connectable, g |-> PortGlue(k, d)[1]]

PortLists ==
    UNION {[1..n -> BOOLEAN \X (0..MaxDist)] : n \in 0..MaxPorts}

ports(l) == [k \in DOMAIN l |-> Port(l[k][1], k, l[k][2])]

\* Variant: the connectable flag of the port is not looked at.
glue_any_port(acc, k, p) ==
    IF p.d < acc.max_dist
    THEN [max_dist |-> p.d, port |-> k, glue_pos |-> p.g]
    ELSE acc

\* The body of the loop of ItemConnectionSink.glue for the k-th port p.
glue_port(acc, k, p) ==
    IF ~p.connectable THEN acc
    ELSE IF p.d < acc.max_dist
         THEN [max_dist |-> p.d, port |-> k, glue_pos |-> p.g]
         ELSE acc

RECURSIVE glue_loop(_, _, _)
glue_loop(acc, ps, k) ==
    IF k \notin DOMAIN ps THEN acc
    ELSE glue_loop(glue_port(acc, k, ps[k]), ps, k + 1)

\* ItemConnectionSink.glue(pos): the position and distance it returns, and
\* self.port as it leaves it.
glue(ps, distance, port) ==
    LET acc == glue_loop([max_dist |-> distance, port |-> port,
                          glue_pos |-> NoPos], ps, 1)
    IN  [result |-> <<acc.glue_pos,
                      IF Truthy(acc.glue_pos) THEN acc.max_dist ELSE BigDist>>,
         port |-> acc.port]

\* ItemConnectionSink.constraint(item, handle): assert self.port fails when
\* self.port is None; otherwise the constraint is built by self.port.
constraint_raises(port) == port = None

\* A sink is made for an item: ItemConnectionSink(item, distance).
NewSink(distance) ==
    /\ pc = "idle"
    /\ sink_port' = None
    /\ glue_limit' = distance
    /\ glue_ports' = <<>>
    /\ glue_result' = <<NoPos, BigDist>>
    /\ lastOp' = "sink"
    /\ lastArg' = None
    /\ lastArg2' = None
    /\ lastHandle' = NoHandle
    /\ lastErr' = "none"
    /\ op_log' = <<>>
    /\ UNCHANGED <<treeVars, dirty_items, dirty_matrix_items, registered_views,
                   idle_queue, calls, requested, unserved, runVars, connVars, consVars,
                   matVars, toolVars, solverVars, exprVars, projVars,
                   dragVars>>

\* sink.glue(pos), the item's ports being ps for this position.
SinkGlue(ps) ==
    LET r == glue(ps, glue_limit, sink_port) IN
    /\ pc = "idle"
    /\ sink_port' = r.port
    /\ glue_ports' = ps
    /\ glue_result' = r.result
    /\ lastOp' = "glue"
    /\ lastArg' = None
    /\ lastArg2' = None
    /\ lastHandle' = NoHandle
    /\ lastErr' = "none"
    /\ op_log' = <<>>
    /\ UNCHANGED <<treeVars, dirty_items, dirty_matrix_items, registered_views,
                   idle_queue, calls, requested, unserved, runVars, connVars, consVars,
                   matVars, toolVars, solverVars, exprVars, projVars, dragVars,
                   glue_limit>>

NextSink ==
    \/ \E distance \in 1..MaxDist : NewSink(distance)
    \/ \E l \in PortLists : SinkGlue(ports(l))

SpecSink == Init /\ [][NextSink]_vars

\* ------------------------------------------------- the solver
\* The registered constraints that read or write the variable.
constraints_of(v) ==
    {c \in Range(registered_constraints) : v \in Range(c.vars)}

MinStrength(c, strength) ==
    CHOOSE m \in {strength[v] : v \in Range(c.vars)} :
        \A v \in Range(c.vars) : m <= strength[v]

\* Variant: the first variable of the constraint, whatever its strength.
first_variable(c, strength) == c.vars[1]

\* c.weakest(): the variable of least strength, the first one of the
\* constraint's variables among those of least strength.
weakest(c, strength) ==
    LET k == CHOOSE k \in DOMAIN c.vars :
                /\ strength[c.vars[k]] = MinStrength(c, strength)
                /\ \A j \in DOMAIN c.vars :
                      strength[c.vars[j]] = MinStrength(c, strength) => k <= j
    IN  c.vars[k]

\* c.solve() of EqualsConstraint(a, b): the weakest of the two variables
\* gets the value of the other.
solve_constraint(c, value, strength) ==
    LET w == weakest(c, strength)
        other == IF w = c.vars[1] THEN c.vars[2] ELSE c.vars[1]
    IN  [value EXCEPT ![w] = value[other]]

\* Variant: no constraint is marked again after c.solve().
remark_none(c, before, after) == {}

\* The constraints to mark again after c.solve(): every other constraint
\* that refers to a variable whose value changed.
remark_others(c, before, after) ==
    {d \in Range(registered_constraints) \ {c} :
        \E v \in Range(d.vars) : before[v] # after[v]}

\* An operation on the solver: the canvas and the tools are left alone.
SolverOp(op) ==
    /\ pc = "idle"
    /\ lastOp' = op
    /\ lastArg' = None
    /\ lastArg2' = None
    /\ lastHandle' = NoHandle
    /\ lastErr' = "none"
    /\ op_log' = <<>>
    /\ UNCHANGED <<treeVars, dirty_items, dirty_matrix_items, registered_views,
                   idle_queue, calls, requested, unserved, runVars, connVars, consVars,
                   matVars, toolVars, glueVars, exprVars, projVars,
                   dragVars>>

\* What the last solve() did is observed until the next operation.
SolveForgotten ==
    /\ solve_count' = [c \in ConstraintObjs |-> 0]
    /\ values_at_entry' = [v \in Vars |-> 0]
    /\ last_solved' = NoConstraint
    /\ solver_result' = "none"

\* Variable(value, strength): a variable no registered constraint refers to
\* is replaced by a new one.
NewVariable(v, value, strength) ==
    /\ ~solving
    /\ constraints_of(v) = {}
    /\ var_value' = [var_value EXCEPT ![v] = value]
    /\ var_strength' = [var_strength EXCEPT ![v] = strength]
    /\ SolverOp("variable")
    /\ SolveForgotten
    /\ UNCHANGED <<registered_constraints, marked_constraints, solving>>

\* v.value = value outside solve(): the constraints that depend on v are
\* marked (request_resolve).
SetValue(v, value) ==
    /\ ~solving
    /\ value # var_value[v]
    /\ var_value' = [var_value EXCEPT ![v] = value]
    /\ marked_constraints' = marked_constraints \cup constraints_of(v)
    /\ SolverOp("set_value")
    /\ SolveForgotten
    /\ UNCHANGED <<var_strength, registered_constraints, solving>>

\* Solver.add_constraint(c): c is registered and marked.
AddConstraint(c) ==
    /\ ~solving
    /\ c \notin Range(registered_constraints)
    /\ Len(registered_constraints) < MaxSolverCons
    /\ registered_constraints' = Append(registered_constraints, c)
    /\ marked_constraints' = marked_constraints \cup {c}
    /\ SolverOp("add_constraint")
    /\ SolveForgotten
    /\ UNCHANGED <<var_value, var_strength, solving>>

\* Solver.remove_constraint(c)
RemoveConstraint(c) ==
    /\ ~solving
    /\ c \in Range(registered_constraints)
    /\ registered_constraints' = SelectSeq(registered_constraints,
                                           LAMBDA d : d # c)
    /\ marked_constraints' = marked_constraints \ {c}
    /\ SolverOp("remove_constraint")
    /\ SolveForgotten
    /\ UNCHANGED <<var_value, var_strength, solving>>

\* Solver.solve() is entered.
SolveBegin ==
    /\ ~solving
    /\ solving' = TRUE
    /\ solve_count' = [c \in ConstraintObjs |-> 0]
    /\ values_at_entry' = var_value
    /\ last_solved' = NoConstraint
    /\ solver_result' = "none"
    /\ SolverOp("solve_begin")
    /\ UNCHANGED <<var_value, var_strength, registered_constraints,
                   marked_constraints>>

\* One round of solve(): a marked constraint is popped, its variables are
\* snapshot, c.solve() is called and the other constraints of the changed
\* variables are marked again; a constraint popped more than JuggleLimit
\* times ends solve() with JuggleError(c).
SolveStep(c) ==
    LET after == solve_constraint(c, var_value, var_strength) IN
    /\ solving
    /\ c \in marked_constraints
    /\ solve_count' = [solve_count EXCEPT ![c] = @ + 1]
    /\ last_solved' = c
    /\ IF solve_count[c] >= JuggleLimit
       THEN /\ solving' = FALSE
            /\ solver_result' = "JuggleError"
            /\ UNCHANGED <<var_value, marked_constraints>>
       ELSE /\ var_value' = after
            /\ marked_constraints' =
                   (marked_constraints \ {c}) \cup remark_others(c, var_value, after)
            /\ UNCHANGED <<solving, solver_result>>
    /\ SolverOp("solve_step")
    /\ UNCHANGED <<var_strength, registered_constraints, values_at_entry>>

\* solve() returns: no constraint is marked any more.
SolveEnd ==
    /\ solving
    /\ marked_constraints = {}
    /\ solving' = FALSE
    /\ solver_result' = "solved"
    /\ SolverOp("solve")
    /\ UNCHANGED <<var_value, var_strength, registered_constraints,
                   marked_constraints, solve_count, values_at_entry, last_solved>>

NextSolver ==
    \/ \E v \in Vars, value \in Values, strength \in Strengths :
          NewVariable(v, value, strength)
    \/ \E v \in Vars, value \in Values : SetValue(v, value)
    \/ \E c \in ConstraintObjs : AddConstraint(c)
    \/ \E c \in ConstraintObjs : RemoveConstraint(c)
    \/ SolveBegin
    \/ \E c \in ConstraintObjs : SolveStep(c)
    \/ SolveEnd

SpecSolver == Init /\ [][NextSolver]_vars

\* ------------------------------------------------- Variable arithmetic
\* The operators of the tests: comparisons and arithmetic.
Comparisons == {"==", "!=", "<", "<=", ">", ">="}
Arithmetic == {"+", "-", "*", "/", "//", "%", "**", "divmod"}

\* An operand is a Variable holding a value or a plain number.
Operands == {"var", "num"} \X ((0 - MaxOperand)..MaxOperand)

\* Values of expressions: a truth value, a number num / den, the pair of
\* divmod, or ZeroDivisionError.
Bool(b) == <<"bool", IF b THEN 1 ELSE 0, 0>>
Pair(q, r) == <<"pair", q, r>>
ZeroDivisionError == <<"ZeroDivisionError", 0, 0>>

RECURSIVE Gcd(_, _)
Gcd(a, b) == IF b = 0 THEN a ELSE Gcd(b, a % b)

\* n / d as a number in lowest terms, d # 0.
Fraction(n, d) ==
    LET g == Gcd(Abs(n), Abs(d))
        sign == IF d < 0 THEN 0 - 1 ELSE 1
    IN  <<"num", (sign * n) \div g, Abs(d) \div g>>

Number(n) == <<"num", n, 1>>

\* Python's floor division and modulo: the quotient is rounded down and the
\* remainder has the sign of the divisor.
FloorDiv(a, b) == IF b > 0 THEN a \div b ELSE (0 - a) \div (0 - b)
Mod(a, b) == a - b * FloorDiv(a, b)

RECURSIVE Power(_, _)
Power(x, n) == IF n = 0 THEN 1 ELSE x * Power(x, n - 1)

\* The operator applied to two plain numbers.
PlainOp(op, x, y) ==
    CASE op = "==" -> Bool(x = y)
      [] op = "!=" -> Bool(x # y)
      [] op = "<" -> Bool(x < y)
      [] op = "<=" -> Bool(x <= y)
      [] op = ">" -> Bool(x > y)
      [] op = ">=" -> Bool(x >= y)
      [] op = "+" -> Number(x + y)
      [] op = "-" -> Number(x - y)
      [] op = "*" -> Number(x * y)
      [] op = "/" -> IF y = 0 THEN ZeroDivisionError ELSE Fraction(x, y)
      [] op = "//" -> IF y = 0 THEN ZeroDivisionError ELSE Number(FloorDiv(x, y))
      [] op = "%" -> IF y = 0 THEN ZeroDivisionError ELSE Number(Mod(x, y))
      [] op = "**" -> IF y >= 0 THEN Number(Power(x, y))
                      ELSE IF x = 0 THEN ZeroDivisionError
                      ELSE Fraction(1, Power(x, 0 - y))
      [] op = "divmod" -> IF y = 0 THEN ZeroDivisionError
                          ELSE Pair(FloorDiv(x, y), Mod(x, y))

\* The comparison Python tries on the right operand when the left one does
\* not know the right one's type: 3 < v is answered by v.__gt__(3).
Reflect(op) ==
    CASE op = "<" -> ">"
      [] op = "<=" -> ">="
      [] op = ">" -> "<"
      [] op = ">=" -> "<="
      [] OTHER -> op

IsVariable(operand) == operand[1] = "var"
Plain_(operand) == <<"num", operand[2]>>

RECURSIVE evaluate(_, _, _)

\* Variant: the reflected method computes self._value op other.
variable_reflected_unswapped(op, self, other) == evaluate(op, Plain_(self), other)

\* Variable.__op__(self, other): self._value op other
variable_method(op, self, other) == evaluate(op, Plain_(self), other)

\* Variable.__rop__(self, other): other op self._value
variable_reflected(op, self, other) == evaluate(op, other, Plain_(self))

\* Python evaluates "left op right": the method of a Variable on the left;
\* else, for a Variable on the right, its reflected method (the mirrored
\* comparison for a comparison); else the operator on plain numbers.
evaluate(op, left, right) ==
    IF IsVariable(left) THEN variable_method(op, left, right)
    ELSE IF IsVariable(right)
         THEN IF op \in Comparisons
              THEN variable_method(Reflect(op), right, left)
              ELSE variable_reflected(op, right, left)
         ELSE PlainOp(op, left[2], right[2])

\* An operation on variables: the canvas, the tools and the solver are
\* left alone.
ExprOp(op) ==
    /\ pc = "idle"
    /\ lastOp' = op
    /\ lastArg' = None
    /\ lastArg2' = None
    /\ lastHandle' = NoHandle
    /\ lastErr' = "none"
    /\ op_log' = <<>>
    /\ UNCHANGED <<treeVars, dirty_items, dirty_matrix_items, registered_views,
                   idle_queue, calls, requested, unserved, runVars, connVars, consVars,
                   matVars, toolVars, glueVars, solverVars, projVars,
                   dragVars>>

\* An expression with a Variable as one operand at least is evaluated.
Evaluate(op, left, right) ==
    /\ expr_op = "none"
    /\ IsVariable(left) \/ IsVariable(right)
    /\ expr_op' = op
    /\ expr_left' = left
    /\ expr_right' = right
    /\ expr_result' = evaluate(op, left, right)
    /\ ExprOp("evaluate")

\* The value of the expression has been used: the next expression follows.
NextExpression ==
    /\ expr_op # "none"
    /\ expr_op' = "none"
    /\ expr_left' = <<"num", 0>>
    /\ expr_right' = <<"num", 0>>
    /\ expr_result' = <<"none", 0, 0>>
    /\ ExprOp("expression")

NextVariable ==
    \/ \E op \in Comparisons \cup Arithmetic, left, right \in Operands :
          Evaluate(op, left, right)
    \/ NextExpression

SpecVariable == Init /\ [][NextVariable]_vars

\* ------------------------------------------------- CanvasProjection
\* The coordinates given to points and written to projections.
Coordinates == {0, 3}

\* An operation on the projection; the matrices and the dirty sets are set
\* by the operation itself.
ProjectionOp(op, k) ==
    /\ pc = "idle"
    /\ lastOp' = op
    /\ lastArg' = k
    /\ lastArg2' = None
    /\ lastHandle' = NoHandle
    /\ lastErr' = "none"
    /\ op_log' = <<>>
    /\ UNCHANGED <<treeVars, registered_views, calls, requested, unserved, runVars,
                   connVars, consVars, matrix, handle_pos, toolVars, glueVars,
                   solverVars,
                   exprVars, dragVars>>

\* p = CanvasProjection(point, item), for a point of an item of the canvas;
\* one projection is followed.
NewProjection(item, x, y) ==
    /\ item \in nodes
    /\ proj_item = None
    /\ proj_item' = item
    /\ proj_point' = <<x, y>>
    /\ proj_cache' = <<0, 0>>
    /\ proj_read' = 0
    /\ ProjectionOp("projection", None)
    /\ UNCHANGED <<dirty_items, dirty_matrix_items, idle_queue, matrix_i2c,
                   matrix_c2i>>

\* CanvasProjection._get_value(): self._px, self._py are the point in
\* canvas coordinates; get_matrix_i2c calculates a matrix that is missing.
get_value(st, item, point) ==
    LET st1 == get_matrix_i2c(st, item, FALSE)
    IN  [st |-> st1,
         cache |-> transform_point(st1.i2c[item], point[1], point[2])]

\* Variant: the write ends with canvas.request_update(item), which marks
\* the item matrix-dirty as well (the projection of src/gaphas/canvas.py).
request_update_with_matrix(dm, item) == dirty_matrix_after_request(dm, item)

\* canvas.request_update(item, matrix=False): the matrix-dirty set is left
\* alone.
request_update_matrix_false(dm, item) == dm

\* p[k].value: the projections are made anew from _get_value().
ProjRead(k) ==
    LET r == get_value(MatState, proj_item, proj_point) IN
    /\ proj_item \in nodes
    /\ SetMatState(r.st)
    /\ proj_cache' = r.cache
    /\ proj_read' = r.cache[k]
    /\ ProjectionOp("proj_read", k)
    /\ UNCHANGED <<proj_item, proj_point, dirty_items, idle_queue>>

\* p[k].value = v: the projections are made anew from _get_value(); the
\* setter calls _on_change_x (k = 1) or _on_change_y (k = 2), which keeps v
\* in _px or _py, sets the point to the canvas-to-item transform of
\* (_px, _py) and requests an update of the item.
ProjWrite(k, v) ==
    LET r == get_value(MatState, proj_item, proj_point)
        cache == [r.cache EXCEPT ![k] = v]
        st == get_matrix_c2i(r.st, proj_item, FALSE)
    IN
    /\ proj_item \in nodes
    /\ proj_cache' = cache
    /\ proj_point' = transform_point(st.c2i[proj_item], cache[1], cache[2])
    /\ InBounds(st.i2c)
    /\ matrix_i2c' = st.i2c
    /\ matrix_c2i' = st.c2i
    /\ dirty_matrix_items' = request_update_matrix_false(st.dm, proj_item)
    /\ dirty_items' = dirty_items_after_request(dirty_items, proj_item,
                                                get_ancestors(proj_item))
    /\ idle_queue' = async_single(idle_queue)
    /\ proj_read' = 0
    /\ ProjectionOp("proj_write", k)
    /\ UNCHANGED proj_item

\* The canvas between updates, with a projection of a point of an item;
\* the items are moved by translations.
NextProjection ==
    \/ \E i \in Items, p \in Items \cup {None} : Add(i, p)
    \/ \E i \in Items, m \in LocalMatrices \ {Identity} : MoveItem(i, m)
    \/ \E order \in Orders(dirty_matrix_items) : UpdateMatricesCall(order)
    \/ \E i \in Items, x, y \in Coordinates : NewProjection(i, x, y)
    \/ \E k \in 1..2 : ProjRead(k)
    \/ \E k \in 1..2, v \in Coordinates : ProjWrite(k, v)

SpecProjection == Init /\ [][NextProjection]_vars

\* The update pipeline with the requests its hooks and callbacks make.
NextRequests ==
    \/ \E i \in Items, p \in Items \cup {None} : Add(i, p)
    \/ \E v \in Views : RegisterView(v)
    \/ \E i \in Items : RequestUpdateSeen(i)
    \/ \E b \in BOOLEAN : UpdateNow(b)
    \/ LoopCall
    \/ LoopEnd
    \/ UpdateMatrices
    \/ SolveCall
    \/ HookReturn
    \/ HookRaise
    \/ \E v \in Views : ViewCall(v)
    \/ ViewReturn
    \/ Finally

SpecRequests == Init /\ [][NextRequests]_vars

\* The update pipeline with hooks that add, request and remove items.
NextContexts ==
    \/ \E i \in Items, p \in Items \cup {None} : Add(i, p)
    \/ \E v \in Views : RegisterView(v)
    \/ \E i \in Items : RequestUpdate(i)
    \/ \E i \in Items : RemoveInCallback(i)
    \/ \E b \in BOOLEAN : UpdateNow(b)
    \/ LoopCall
    \/ LoopEnd
    \/ UpdateMatrices
    \/ SolveCall
    \/ HookReturn
    \/ HookRaise
    \/ \E v \in Views : ViewCall(v)
    \/ ViewReturn
    \/ Finally

SpecContexts == Init /\ [][NextContexts]_vars

\* ------------------------------------------------- ItemTool, HandleTool
\* The mouse buttons of an event; ItemTool is made with buttons=(1,).
Buttons == {1, 3}
ItemToolButtons == {1}

\* event.state: no modifier key, SHIFT or CONTROL.
Modifiers == {"none", "shift", "ctrl"}

\* An aspect is named by the item, or the handle, it was made for.
InMotion(item) == <<item, 0>>
AspectCall(method, target) == <<method, target>>
CallsOn(method, targets) == {AspectCall(method, t) : t \in targets}

\* What a tool handler leaves behind besides the state of its tool.
DragOp(op, log, returned) ==
    /\ pc = "idle"
    /\ aspect_log' = log
    /\ handler_result' = returned
    /\ lastOp' = op
    /\ lastArg' = None
    /\ lastArg2' = None
    /\ lastHandle' = NoHandle
    /\ UNCHANGED <<treeVars, registered_views, calls, unserved, runVars,
                   consVars, matVars, toolVars, glueVars, solverVars, exprVars,
                   projVars>>

\* A handler that leaves the canvas and the connections alone.
DragOnly ==
    /\ lastErr' = "none"
    /\ op_log' = <<>>
    /\ UNCHANGED <<dirty_items, dirty_matrix_items, idle_queue, requested,
                   connVars>>

\* ItemTool.movable_items(): the selected items without those that have a
\* selected ancestor.
movable(selected) ==
    {item \in selected : get_ancestors(item) \cap selected = {}}

\* Variant: a button press that selects an item stops the moves first.
press_stops_moves(moving) == CallsOn("stop_move", {InMotion(i) : i \in moving})

\* ItemTool.on_button_press: self._movable_items.clear()
press_clears_moves(moving) == {}

\* ItemTool.on_button_press(event); item is view.hovered_item and selected
\* is view.selected_items, both kept by the view.
ItemPress(button, mods, item, selected) ==
    LET deselect == ~(mods \in {"shift", "ctrl"} \/ item \in selected)
        left == IF deselect THEN {} ELSE selected
        unselects == item \in left /\ mods = "ctrl"
    IN
    /\ item \in nodes \cup {None}
    /\ selected \subseteq nodes
    /\ IF button \notin ItemToolButtons
       THEN /\ DragOp("item_press", {}, "false")
            /\ UNCHANGED movable_items
       ELSE IF item = None
       THEN /\ DragOp("item_press",
                      IF deselect THEN CallsOn("unselect_all", {InMotion(None)})
                      ELSE {}, "none")
            /\ UNCHANGED movable_items
       ELSE IF unselects
       THEN /\ DragOp("item_press", CallsOn("unselect", {InMotion(item)}), "true")
            /\ UNCHANGED movable_items
       ELSE /\ DragOp("item_press",
                      (IF deselect THEN CallsOn("unselect_all", {InMotion(None)})
                       ELSE {})
                      \cup CallsOn("select", {InMotion(item)})
                      \cup press_clears_moves(movable_items), "true")
            /\ movable_items' = {}
    /\ DragOnly
    /\ UNCHANGED <<grabbed_item, grabbed_handle, motion_handle>>

\* ItemTool.on_button_release(event)
ItemRelease(button) ==
    /\ IF button \notin ItemToolButtons
       THEN /\ DragOp("item_release", {}, "false")
            /\ UNCHANGED movable_items
       ELSE /\ DragOp("item_release",
                      CallsOn("stop_move", {InMotion(i) : i \in movable_items}),
                      "true")
            /\ movable_items' = {}
    /\ DragOnly
    /\ UNCHANGED <<grabbed_item, grabbed_handle, motion_handle>>

\* ItemTool.on_motion_notify(event); pressed is event.state &
\* BUTTON_PRESS_MASK.
ItemMotion(pressed, selected) ==
    LET started == IF movable_items = {} THEN movable(selected) ELSE {}
        moving == IF movable_items = {} THEN movable(selected) ELSE movable_items
    IN
    /\ selected \subseteq nodes
    /\ IF pressed
       THEN /\ DragOp("item_motion",
                      CallsOn("start_move", {InMotion(i) : i \in started})
                      \cup CallsOn("move", {InMotion(i) : i \in moving}), "true")
            /\ movable_items' = moving
       ELSE /\ DragOp("item_motion", {}, "none")
            /\ UNCHANGED movable_items
    /\ DragOnly
    /\ UNCHANGED <<grabbed_item, grabbed_handle, motion_handle>>

\* The ItemTool with the canvas of its view.
NextItemTool ==
    \/ \E i \in Items, p \in Items \cup {None} : Add(i, p)
    \/ \E b \in Buttons, m \in Modifiers, i \in Items \cup {None},
          sel \in SUBSET Items : ItemPress(b, m, i, sel)
    \/ \E b \in Buttons : ItemRelease(b)
    \/ \E pressed \in BOOLEAN, sel \in SUBSET Items : ItemMotion(pressed, sel)

SpecItemTool == Init /\ [][NextItemTool]_vars

\* The handles HandleFinder.get_handle_at_point may find: one of an item of
\* the canvas, or none.
HandlesAtPoint == {h \in Handles : owner(h) \in nodes} \cup {NoHandle}

\* Variant: a button press stops the motion handle before it drops it.
press_stops_motion(mh) ==
    IF mh = NoHandle THEN {} ELSE CallsOn("stop_move", {mh})

\* HandleTool.on_button_press: self.motion_handle = None
press_drops_motion(mh) == {}

\* HandleTool.grab_handle(item, handle), called by PlacementTool or by the
\* application: the assertion fails, or None has no method handles.
GrabHandle(item, handle) ==
    LET none == item = None /\ handle = NoHandle
        own == item # None /\ handle # NoHandle /\ owner(handle) = item
    IN
    /\ item \in nodes \cup {None}
    /\ IF none \/ own
       THEN /\ grabbed_item' = item
            /\ grabbed_handle' = handle
            /\ DragOp("grab_handle", CallsOn("select", {handle}), "none")
            /\ lastErr' = "none"
       ELSE /\ DragOp("grab_handle", {}, "raised")
            /\ lastErr' = IF item = None THEN "AttributeError"
                           ELSE "AssertionError"
            /\ UNCHANGED <<grabbed_item, grabbed_handle>>
    /\ op_log' = <<>>
    /\ UNCHANGED <<dirty_items, dirty_matrix_items, idle_queue, requested,
                   connVars, movable_items, motion_handle>>

\* HandleTool.ungrab_handle()
UngrabHandle ==
    /\ grabbed_item' = None
    /\ grabbed_handle' = NoHandle
    /\ DragOp("ungrab_handle",
              IF grabbed_handle # NoHandle
              THEN CallsOn("unselect", {grabbed_handle}) ELSE {}, "none")
    /\ DragOnly
    /\ UNCHANGED <<movable_items, motion_handle>>

\* HandleTool.on_button_press(event); handle is what HandleFinder found and
\* deselect tells whether the view's selection is dropped first.
HandlePress(handle, deselect) ==
    /\ handle \in HandlesAtPoint
    /\ IF handle # NoHandle
       THEN /\ motion_handle' = NoHandle
            /\ grabbed_item' = owner(handle)
            /\ grabbed_handle' = handle
            /\ DragOp("handle_press",
                      (IF deselect THEN CallsOn("unselect_all", {NoHandle})
                       ELSE {})
                      \cup press_drops_motion(motion_handle)
                      \cup CallsOn("select", {handle}), "true")
       ELSE /\ DragOp("handle_press", {}, "none")
            /\ UNCHANGED <<grabbed_item, grabbed_handle, motion_handle>>
    /\ DragOnly
    /\ UNCHANGED movable_items

\* HandleTool.on_button_release(event), after connecting has left the
\* connections as st: the motion handle is stopped, the handle is ungrabbed
\* and the item that had the grabbed handle requests an update.
ReleaseHandle(op, st) ==
    LET item == grabbed_item
        asked == grabbed_handle # NoHandle /\ item \in nodes
    IN
    /\ motion_handle' = NoHandle
    /\ grabbed_item' = None
    /\ grabbed_handle' = NoHandle
    /\ DragOp(op,
              (IF motion_handle # NoHandle
               THEN CallsOn("stop_move", {motion_handle}) ELSE {})
              \cup (IF grabbed_handle # NoHandle
                    THEN CallsOn("unselect", {grabbed_handle}) ELSE {}),
              "true")
    /\ dirty_items' = IF asked
                      THEN dirty_items_after_request(dirty_items, item,
                                                     get_ancestors(item))
                      ELSE dirty_items
    /\ dirty_matrix_items' = IF asked
                             THEN dirty_matrix_after_request(dirty_matrix_items,
                                                             item)
                             ELSE dirty_matrix_items
    /\ idle_queue' = IF asked THEN async_single(idle_queue) ELSE idle_queue
    /\ requested' = IF asked THEN requested \cup {item} ELSE requested
    /\ connected_to' = st.ct
    /\ disconnect_cb' = st.cb
    /\ op_log' = st.log
    /\ lastErr' = st.err
    /\ UNCHANGED movable_items

HandleRelease == ReleaseHandle("handle_release", ConnState)

\* ConnectHandleTool.on_button_release(event): try: self.connect(item,
\* handle, pos) for a connectable handle; finally: return
\* super().on_button_release(event), which drops what connecting raised
\* (it is kept in lastErr).
ConnectRelease(has_sink, connected, port, allow) ==
    /\ connected \in nodes
    /\ ReleaseHandle("connect_release",
                     IF grabbed_handle \in Connectable
                     THEN tool_connect(ConnState, grabbed_handle, has_sink,
                                       Sink(connected, port), allow)
                     ELSE ConnState)

\* HandleTool.on_motion_notify(event)
HandleMotion(pressed) ==
    /\ IF grabbed_handle # NoHandle /\ pressed
       THEN IF motion_handle = NoHandle
            THEN /\ motion_handle' = grabbed_handle
                 /\ DragOp("handle_motion",
                           CallsOn("start_move", {grabbed_handle})
                           \cup CallsOn("move", {grabbed_handle}), "true")
            ELSE /\ DragOp("handle_motion", CallsOn("move", {motion_handle}),
                           "true")
                 /\ UNCHANGED motion_handle
       ELSE /\ DragOp("handle_motion", {}, "none")
            /\ UNCHANGED motion_handle
    /\ DragOnly
    /\ UNCHANGED <<movable_items, grabbed_item, grabbed_handle>>

\* The HandleTool and the ConnectHandleTool with the canvas of their view.
NextHandleTool ==
    \/ \E i \in Items, p \in Items \cup {None} : Add(i, p)
    \/ \E i \in Items \cup {None}, h \in Handles \cup {NoHandle} : GrabHandle(i, h)
    \/ UngrabHandle
    \/ \E h \in Handles \cup {NoHandle}, d \in BOOLEAN : HandlePress(h, d)
    \/ HandleRelease
    \/ \E has_sink, port, allow \in BOOLEAN, i \in Items :
          ConnectRelease(has_sink, i, port, allow)
    \/ \E pressed \in BOOLEAN : HandleMotion(pressed)

SpecHandleTool == Init /\ [][NextHandleTool]_vars

\* ------------------------------------------------- update_now, older revision
\* Canvas.update_now of src/canvas.py. Its guard is the field _in_update, set
\* by the first statement and reset by the last statement of the finally
\* block; update_now itself does not read it, update() does. dirty_items is a
\* local of the call, bound inside the try block after the cairo context has
\* been obtained, and the first statement of the finally block reads it.
\* When _obtain_cairo_context() raises, that read raises in its turn: no view
\* is called, the dirty items are not cleared and _in_update stays set.
\* The contexts of the hooks are not looked at in this revision.
LegacyBegin(contextRaises) ==
    /\ pc = "idle"
    /\ requested' = {}
    /\ in_update' = TRUE
    /\ IF contextRaises
       THEN /\ result' = "raised"
            /\ trace' = <<>>
            /\ UNCHANGED <<pc, stage, todo, local_dm, dm_marked, req_at_entry>>
       ELSE /\ pc' = "run"
            /\ stage' = 1
            /\ todo' = sort(dirty_items, TRUE)
            /\ local_dm' = dirty_matrix_items
            /\ dm_marked' = dirty_matrix_items
            /\ req_at_entry' = requested
            /\ UNCHANGED <<result, trace>>
    /\ lastOp' = "step"
    /\ Plain
    /\ lastArg' = None
    /\ UNCHANGED <<treeVars, dirty_items, dirty_matrix_items, registered_views,
                   unserved, cur, calls, context_map, views_todo, exc>>

\* update_now called by the application.
LegacyUpdateNow(contextRaises) ==
    /\ LegacyBegin(contextRaises)
    /\ UNCHANGED idle_queue

\* The idle callback of update(): if not self._in_update: self.update_now()
LegacyUpdate(contextRaises) ==
    /\ pc = "idle"
    /\ idle_queue > 0
    /\ IF in_update
       THEN /\ idle_queue' = idle_queue - 1
            /\ lastOp' = "update_skipped"
            /\ Plain
            /\ lastArg' = None
            /\ UNCHANGED <<treeVars, dirty_items, dirty_matrix_items,
                           registered_views, requested, unserved, calls,
                           runVars>>
       ELSE /\ LegacyBegin(contextRaises)
            /\ idle_queue' = idle_queue - 1

\* item.pre_update(c) and item.update(c) are called without try/except: what
\* a hook or the solver raises goes to the finally block.
LegacyHookRaise ==
    /\ pc = "hook"
    /\ Propagate(Append(trace, HookStep(TRUE)))
    /\ dm_marked' = marked_after_hook
    /\ UNCHANGED <<todo, local_dm, req_at_entry>>
    /\ UNCHANGED <<treeVars, dirty_items, dirty_matrix_items, registered_views,
                   idle_queue, requested>>

\* The older update_now with the application around it.
NextLegacy ==
    \/ \E i \in Items, p \in Items \cup {None} : Add(i, p)
    \/ \E v \in Views : RegisterView(v)
    \/ \E i \in Items : RequestUpdate(i)
    \/ \E b \in BOOLEAN : LegacyUpdateNow(b)
    \/ \E b \in BOOLEAN : LegacyUpdate(b)
    \/ LoopCall
    \/ LoopEnd
    \/ UpdateMatrices
    \/ SolveCall
    \/ HookReturn
    \/ LegacyHookRaise
    \/ \E v \in Views : ViewCall(v)
    \/ ViewReturn
    \/ Finally

SpecLegacy == Init /\ [][NextLegacy]_vars

\* The handles of the items, moved by the application and normalised.
NextHandles ==
    \/ \E h \in Handles, x, y \in HandleCoords : MoveHandle(h, x, y)
    \/ \E i \in Items : UpdateHandlesCall(i)

SpecHandles == Init /\ [][NextHandles]_vars

\* The canvas between updates, with the matrices of its items.
NextMatrices ==
    \/ \E i \in Items, p \in Items \cup {None} : Add(i, p)
    \/ \E i \in Items : Remove(i)
    \/ \E i \in Items, p \in Items \cup {None} : Reparent(i, p)
    \/ \E i \in Items : RequestUpdate(i)
    \/ \E i \in Items, m \in LocalMatrices : MoveItem(i, m)
    \/ \E i \in Items, calculate \in BOOLEAN : GetMatrixI2C(i, calculate)
    \/ \E order \in Orders(dirty_matrix_items) : UpdateMatricesCall(order)

SpecMatrices == Init /\ [][NextMatrices]_vars

\* ------------------------------------------------- observations
PreEvents == {k \in DOMAIN trace : trace[k].kind = "pre"}
PostEvents == {k \in DOMAIN trace : trace[k].kind = "post"}
MatrixEvents == {k \in DOMAIN trace : trace[k].kind = "matrices"}
SolveEvents == {k \in DOMAIN trace : trace[k].kind = "solve"}
ViewEvents(v) == {k \in DOMAIN trace : trace[k].kind = "view" /\ trace[k].id = v}
AllViewEvents == UNION {ViewEvents(v) : v \in Views}

\* update_now has done everything but clear the dirty items and return.
AboutToReturn == pc = "views" /\ views_todo = {}

HookRaised == \E k \in PreEvents \cup PostEvents : trace[k].raised
SolverRaised == \E k \in SolveEvents : trace[k].raised
EveryViewNotified == \A v \in registered_views : ViewEvents(v) # {}

\* ------------------------------------------------- C1
\* C1: update_now called while update_now is running returns at once: it runs
\* no hook, notifies no view and leaves both dirty sets as they are.
C1_NonReentrance ==
    [][lastOp' = "update_now_reentrant" =>
         UNCHANGED <<dirty_items, dirty_matrix_items, trace, pc, stage, todo,
                     cur, views_todo, local_dm>>]_vars

C1_Witness ==
    /\ lastOp = "update_now_reentrant"
    /\ pc = "hook"
    /\ dirty_items # {}
    /\ dirty_matrix_items # {}

\* ------------------------------------------------- C2
\* C2: when update_now has returned, dirty-items and dirty-matrix-items are
\* both empty, whatever the item hooks did.
C2_DirtySetClosure ==
    (lastOp = "update_now_return" /\ result = "returned") =>
        (dirty_items = {} /\ dirty_matrix_items = {})

\* ------------------------------------------------- C3
\* C3: however many update() calls are made (directly or by request_update,
\* request_matrix_update, add) before the scheduler fires, exactly one idle
\* callback, hence one update_now, is pending.
SchedulingOps == {"add", "request_update", "request_matrix_update", "update"}

C3_UpdateCoalescing ==
    /\ idle_queue <= 1
    /\ lastOp \in SchedulingOps => idle_queue = 1

C3_Witness ==
    /\ pc = "idle"
    /\ lastOp = "update"
    /\ Cardinality(requested) >= 2
    /\ idle_queue = 1

\* ------------------------------------------------- C4
\* C4: the update_now that follows request_update calls on several items
\* passes to every registered view a dirty-items set holding each requested
\* item (that was not removed from the canvas in between).
C4_RequestedItemsReachViews ==
    AboutToReturn =>
        \A v \in registered_views :
            \E k \in ViewEvents(v) : req_at_entry \subseteq trace[k].du

C4_Witness ==
    /\ AboutToReturn
    /\ registered_views # {}
    /\ Cardinality(req_at_entry) >= 2
    /\ \A v \in registered_views :
           \E k \in ViewEvents(v) : req_at_entry \subseteq trace[k].du

\* ------------------------------------------------- C5
\* C5: within one update_now no pre_update hook and no update_matrices run
\* comes after an update (post-update) hook, and matrices were propagated
\* before the first update hook.
C5_PreAndMatricesBeforePost ==
    \A k \in PostEvents :
        /\ \A l \in PreEvents \cup MatrixEvents : l < k
        /\ MatrixEvents # {}

C5_Witness ==
    /\ AboutToReturn
    /\ Cardinality(PreEvents) >= 2
    /\ Cardinality(PostEvents) >= 2
    /\ Cardinality(MatrixEvents) = 2

\* ------------------------------------------------- C6
\* C6: an update_now call notifies every registered view exactly once, after
\* all update (post-update) hooks of the call, also when nothing was dirty.
C6_ViewsNotifiedOnceAfterPost ==
    /\ \A v \in Views : Cardinality(ViewEvents(v)) <= 1
    /\ \A k \in AllViewEvents : \A l \in PostEvents : l < k
    /\ AboutToReturn => EveryViewNotified

C6_Witness ==
    /\ AboutToReturn
    /\ registered_views # {}
    /\ EveryViewNotified
    /\ PostEvents = {}
    /\ \A k \in AllViewEvents : trace[k].du = {} /\ trace[k].dm = {}

\* ------------------------------------------------- C7
\* C7: an exception raised by a pre_update or update hook does not abort
\* update_now: the loop it was raised in runs to its end, every item that
\* was pre-updated is updated, the solver runs and the views are notified.
C7_HookExceptionDoesNotAbort ==
    (AboutToReturn /\ HookRaised /\ ~SolverRaised) =>
        /\ todo = <<>>
        /\ SolveEvents # {}
        /\ \A k \in PreEvents : \E l \in PostEvents : trace[l].id = trace[k].id
        /\ EveryViewNotified

C7_Witness ==
    /\ AboutToReturn
    /\ registered_views # {}
    /\ EveryViewNotified
    /\ \E k, l \in PreEvents : k < l /\ trace[k].raised
    /\ \E k, l \in PostEvents : k < l /\ trace[k].raised
    /\ SolveEvents # {}

\* ------------------------------------------------- C8
\* C8: when solver.solve() raises, update_now leaves with that exception,
\* and only after every registered view was notified.
C8_SolverExceptionAfterViews ==
    [][(pc # "idle" /\ pc' = "idle") =>
         /\ result' = "raised" => EveryViewNotified
         /\ SolverRaised => result' = "raised"]_vars

C8_Witness ==
    /\ AboutToReturn
    /\ SolverRaised
    /\ exc
    /\ registered_views # {}
    /\ EveryViewNotified
    /\ \A k \in AllViewEvents : trace[k].du # {}

\* ------------------------------------------------- C9
\* C9: of two items handled by one update_now, one an ancestor of the other,
\* the descendant's hook runs first.
LeavesFirst(events) ==
    \A k, l \in events :
        k < l => trace[k].id \notin get_ancestors(trace[l].id)

C9_LeavesFirst == LeavesFirst(PreEvents) /\ LeavesFirst(PostEvents)

\* ------------------------------------------------- C10
\* C10: request_update(item) adds the item to both dirty sets and its
\* ancestors to dirty-items only, and schedules update();
\* request_matrix_update(item) adds the item to dirty-matrix-items only.
C10_RequestUpdateEffect ==
    [][/\ lastOp' = "request_update" =>
            /\ dirty_items' = dirty_items \cup {lastArg'}
                                \cup get_ancestors(lastArg')
            /\ dirty_matrix_items' = dirty_matrix_items \cup {lastArg'}
            /\ idle_queue' = 1
       /\ lastOp' = "request_matrix_update" =>
            /\ dirty_items' = dirty_items
            /\ dirty_matrix_items' = dirty_matrix_items \cup {lastArg'}
            /\ idle_queue' = 1]_vars

C10_Witness ==
    /\ lastOp = "request_update"
    /\ get_parent(lastArg) # None
    /\ get_parent(lastArg) \in dirty_items
    /\ get_parent(lastArg) \notin dirty_matrix_items
    /\ lastArg \in dirty_items \cap dirty_matrix_items
    /\ idle_queue = 1

\* C11: the matrix-dirty set update_now reports to the views holds every item
\* that was matrix-dirty when update_now started and every item marked
\* matrix-dirty during the pre_update hooks or the solver run of that call.
C11_MatrixDirtyReported ==
    \A k \in DOMAIN trace :
        trace[k].kind = "view" => dm_marked \subseteq trace[k].dm

\* ------------------------------------------------- observations on op_log
Positions(log, kind, h) ==
    {k \in DOMAIN log : log[k] = LogEv(kind, h[1], h[2])}

CallbackCount(log, h) == Cardinality(Positions(log, "callback", h))

\* The items _remove was applied to, in order.
RemovedItems(log) ==
    LET ev == SelectSeq(log, LAMBDA e : e[1] = "removed")
    IN  [k \in DOMAIN ev |-> ev[k][2]]

TableUnchanged ==
    UNCHANGED <<constraint_items, constraint_handles, constraint_sets>>

\* C12: add for an item that is in the tree fails with an assertion error and
\* leaves the tree, both dirty sets, the constraint table and item.canvas as
\* they were; add for a new item puts it under the given parent, sets
\* item.canvas and marks it dirty for update and for matrix update.
C12_AddFailsFastOrInserts ==
    [][lastOp' = "add" =>
         IF lastArg' \in nodes
         THEN /\ lastErr' = "AssertionError"
              /\ TableUnchanged
              /\ UNCHANGED <<children, canvas_of, dirty_items,
                             dirty_matrix_items>>
         ELSE /\ lastErr' = "none"
              /\ nodes' = nodes \cup {lastArg'}
              /\ lastArg' \in Range(children'[lastArg2'])
              /\ \A p \in DOMAIN children :
                     p # lastArg2' => children'[p] = children[p]
              /\ lastArg' \in canvas_of'
              /\ lastArg' \in dirty_items' \cap dirty_matrix_items']_vars

C12_Witness ==
    /\ lastOp = "add"
    /\ lastErr = "AssertionError"
    /\ lastArg \in dirty_items \cap dirty_matrix_items
    /\ \E h \in Handles : owner(h) = lastArg /\ constraint_sets[h] # {}

\* C13: remove takes the item and all its descendants out of the tree, every
\* child before its parent; each removed item then has no canvas and is in
\* neither dirty set.
C13_RemoveChildrenFirst ==
    [][lastOp' = "remove" =>
         LET removed == RemovedItems(op_log') IN
         /\ Range(removed) = {lastArg'} \cup Descendants(lastArg')
         /\ Len(removed) = Cardinality(Range(removed))
         /\ \A a, b \in DOMAIN removed :
                removed[b] = get_parent(removed[a]) => a < b
         /\ nodes' = nodes \ Range(removed)
         /\ Range(removed) \cap (canvas_of' \cup dirty_items'
                                 \cup dirty_matrix_items') = {}]_vars

C13_Witness ==
    /\ lastOp = "remove"
    /\ Len(RemovedItems(op_log)) > 1
    /\ nodes = {}

\* C14: after remove(item) no handle of an item left in the canvas is
\* connected to item, and no handle of item itself is connected to anything.
C14_RemoveClearsBothSides ==
    lastOp = "remove" =>
        \A h \in Handles :
            /\ owner(h) \in nodes => connected_to[h] # lastArg
            /\ owner(h) = lastArg => connected_to[h] = None

InTable(c) == \E h \in constraint_handles : c \in constraint_sets[h]

\* C15: after remove(item) no constraint that was registered for item through
\* add_canvas_constraint is registered in the solver.
C15_RemoveUnregistersConstraints ==
    [][lastOp' = "remove" =>
         \A h \in constraint_handles :
             owner(h) = lastArg' =>
                 constraint_sets[h] \cap solver_constraints' = {}]_vars

Coupled == \A c \in Cons : InTable(c) <=> c \in solver_constraints

\* C16: add_canvas_constraint and remove_canvas_constraint keep the table and
\* the solver in step: a constraint is in the table iff it is registered in
\* the solver.
C16_TableSolverCoupling ==
    [][lastOp' \in {"add_canvas_constraint", "remove_canvas_constraint"}
       /\ Coupled => Coupled']_vars

\* C17: add_canvas_constraint, remove_canvas_constraint and canvas_constraints
\* called for an item that is not in the canvas raise at the call and leave
\* the table and the solver as they were.
C17_ConstraintOpsFailFast ==
    [][lastOp' \in {"add_canvas_constraint", "remove_canvas_constraint",
                    "canvas_constraints"}
       /\ lastArg' \notin constraint_items =>
           /\ lastErr' = "ValueError"
           /\ TableUnchanged
           /\ UNCHANGED solver_constraints]_vars

\* C18: a connect that registers a connection for a handle that has one
\* already removes the old record first, calls the old disconnect callback
\* once, and ends with the new record in place; a handle never has more than
\* one record.
C18_ConnectReplaces ==
    [][lastOp' \in {"connect", "connect_handle", "tool_connect"} =>
         LET h == lastHandle'
             reg == Positions(op_log', "register", h)
             unreg == Positions(op_log', "unregister", h)
             called == Positions(op_log', "callback", h)
         IN  /\ Cardinality(reg) <= 1
             /\ reg # {} =>
                  /\ op_log'[Len(op_log')] = LogEv("register", h[1], h[2])
                  /\ connected_to'[h] # None
                  /\ connected_to[h] # None =>
                       /\ Cardinality(unreg) = 1
                       /\ Cardinality(called) = IF disconnect_cb[h] THEN 1 ELSE 0
                       /\ \A k \in unreg \cup called, r \in reg : k < r
             /\ \A g \in Handles \ {h} : connected_to'[g] = connected_to[g]]_vars

C18_Witness ==
    /\ lastOp \in {"connect", "tool_connect"}
    /\ op_log = <<LogEv("unregister", lastHandle[1], lastHandle[2]),
                  LogEv("callback", lastHandle[1], lastHandle[2]),
                  LogEv("register", lastHandle[1], lastHandle[2])>>

\* C19: the disconnect callback of a connection is called once, when the
\* connected handle is disconnected; disconnecting a handle that is not
\* connected (again, or through remove_connections_to_item or remove) does
\* nothing and calls nothing.
C19_CallbackOnce ==
    [][\A h \in Handles :
         LET n == CallbackCount(op_log', h) IN
         /\ n <= 1
         /\ n = 1 => connected_to[h] # None /\ disconnect_cb[h]
         /\ n = 1 /\ Positions(op_log', "register", h) = {} =>
                connected_to'[h] = None /\ ~disconnect_cb'[h]
         /\ disconnect_cb'[h] => connected_to'[h] # None
         /\ lastOp' = "disconnect" /\ lastHandle' = h =>
                IF connected_to[h] = None
                THEN op_log' = <<>> /\ UNCHANGED connVars
                ELSE /\ connected_to'[h] = None
                     /\ n = IF disconnect_cb[h] THEN 1 ELSE 0]_vars

C19_Witness ==
    /\ lastOp \in {"disconnect", "remove_connections_to_item", "remove"}
    /\ \E h \in Handles : /\ CallbackCount(op_log, h) = 1
                          /\ connected_to[h] = None

I2C(item) == get_matrix_i2c(MatState, item, FALSE).i2c[item]

\* The local matrices along the ancestor chain of the item, composed.
RECURSIVE Chain(_, _)
Chain(item, fuel) ==
    IF fuel = 0 \/ get_parent(item) = None THEN matrix[item]
    ELSE multiply(matrix[item], Chain(get_parent(item), fuel - 1))

\* Neither the item nor one of its ancestors waits for update_matrices.
NoPending(item) ==
    ({item} \cup get_ancestors(item)) \cap dirty_matrix_items = {}

MatrixConsistencyOps ==
    {"add", "remove", "reparent", "request_update", "update_matrices",
     "get_matrix_i2c"}

\* C21: matrix consistency: after add, remove, reparent, request_update,
\* an update or get_matrix_i2c, get_matrix_i2c(i) is i.matrix composed with
\* get_matrix_i2c(parent(i)), or i.matrix alone for an item without parent,
\* for every item i of the tree (stated here for the items that are not
\* waiting for update_matrices, and yet violated).
C21_MatrixConsistency ==
    lastOp \in MatrixConsistencyOps =>
        \A i \in nodes :
            NoPending(i) =>
                I2C(i) = IF get_parent(i) = None THEN matrix[i]
                         ELSE multiply(matrix[i], I2C(get_parent(i)))

\* The items update_matrices has to bring up to date: the matrix-dirty items
\* and their descendants.
ToUpdate == {i \in nodes : ({i} \cup get_ancestors(i)) \cap dirty_matrix_items # {}}

\* C22: when update_matrices() returns, the matrix-dirty set is empty and,
\* for every item that was in it and every descendant of such an item, the
\* stored item-to-canvas matrix is the composition of the local matrices
\* along its ancestor chain, whatever the order of the pops, and the stored
\* canvas-to-item matrix is its inverse.
C22_UpdateMatricesResult ==
    [][lastOp' = "update_matrices" =>
          /\ dirty_matrix_items' = {}
          /\ \A i \in ToUpdate :
                /\ matrix_i2c'[i] = Chain(i, MaxItems)
                /\ matrix_c2i'[i] = invert(matrix_i2c'[i])]_vars

\* ------------------------------------------------- the tree
Parents(n) == {p \in DOMAIN children : n \in Range(children[p])}

Delivered(log, type) ==
    LET calls_ == SelectSeq(log, LAMBDA c : c[2] = type)
    IN  [k \in DOMAIN calls_ |-> calls_[k][1]]

\* C27: the grab protocol of ToolChain: a tool that returns true for a
\* button press becomes the grabbed tool; while a tool is grabbed, an event
\* that has a handler (button, motion, key, scroll) is delivered to that
\* tool and to no other; after a button release has been handled no tool is
\* grabbed, also when the handler of the grabbed tool raised.
C27_GrabProtocol ==
    [][lastOp' = "handle" =>
          /\ \A t \in Tools :
                ToolCall(t, "button_press", "true") \in Range(tool_log')
                    => grabbed_tool' = t
          /\ (grabbed_tool # None
                 /\ tool_event' \in HandledEvents \ FORCE_UNGRAB_EVENTS)
                    => Delivered(tool_log', tool_event') = <<grabbed_tool>>
          /\ (grabbed_tool # None /\ tool_event' = "button_release")
                    => grabbed_tool' = None]_vars

\* A button release went to the grabbed tool, whose handler raised, and the
\* tool was released.
C27_Witness ==
    /\ lastOp = "handle"
    /\ tool_event = "button_release"
    /\ tool_result = "raised"
    /\ grabbed_tool = None
    /\ \E t \in Tools : tool_log = <<ToolCall(t, "button_release", "raised"),
                                      ToolCall(t, "ungrab", "false")>>

\* C28: a double or triple click releases the grabbed tool, if there is
\* one, before it is dispatched to the tools of the chain in order, and
\* ToolChain.handle completes without an error of its own, whether a tool
\* was grabbed or not.
C28_ClickNeverDangling ==
    (lastOp = "handle" /\ tool_event \in FORCE_UNGRAB_EVENTS) =>
        /\ tool_result # "AttributeError"
        /\ grabbed_tool = None

\* ------------------------------------------------- the connection sink
\* The ports glue may select: connectable, and nearer than the sink's limit.
Qualifying ==
    {k \in DOMAIN glue_ports :
        glue_ports[k].connectable /\ glue_ports[k].d < glue_limit}

C24_SolverFixpoint ==
    (lastOp = "solve" /\ solver_result = "solved") =>
        /\ marked_constraints = {}
        /\ \A c \in Range(registered_constraints) :
              solve_constraint(c, var_value, var_strength) = var_value

\* solve() returned successfully after it had to solve a constraint a
\* second time: another constraint had changed one of its variables.
C24_Witness ==
    /\ lastOp = "solve"
    /\ solver_result = "solved"
    /\ Len(registered_constraints) = 2
    /\ var_value # values_at_entry
    /\ \E c \in Range(registered_constraints) : solve_count[c] >= 2

\* C25: solver strength: c.solve() adjusts the weakest variable of the
\* constraint only and overwrites no stronger one; with a = 3 STRONG and
\* b = 0 WEAK and EqualsConstraint(a, b), solve() ends with a = 3 and b = 3.
C25_StrengthRespected ==
    [][/\ lastOp' = "solve_step" =>
             \A v \in Vars :
                 var_value'[v] # var_value[v] =>
                     /\ v \in Range(last_solved'.vars)
                     /\ \A u \in Range(last_solved'.vars) :
                           var_strength[v] <= var_strength[u]
       /\ (/\ lastOp' = "solve"
           /\ solver_result' = "solved"
           /\ \E a, b \in Vars :
                 /\ registered_constraints = <<EqualsConstraint(a, b)>>
                 /\ var_strength[a] = STRONG /\ var_strength[b] = WEAK
                 /\ values_at_entry[a] = 3 /\ values_at_entry[b] = 0)
          => \A a, b \in Vars :
                 registered_constraints = <<EqualsConstraint(a, b)>>
                     => var_value'[a] = 3 /\ var_value'[b] = 3]_vars

\* The scenario: a = 3 STRONG, b = 0 WEAK, EqualsConstraint(a, b), solved.
C25_Witness ==
    /\ lastOp = "solve"
    /\ solver_result = "solved"
    /\ \E a, b \in Vars :
          /\ registered_constraints = <<EqualsConstraint(a, b)>>
          /\ var_strength[a] = STRONG /\ var_strength[b] = WEAK
          /\ values_at_entry[a] = 3 /\ values_at_entry[b] = 0
          /\ solve_count[EqualsConstraint(a, b)] = 1
          /\ var_value[a] = 3 /\ var_value[b] = 3

\* ------------------------------------------------- Variable arithmetic
\* C26: comparisons and arithmetic treat a Variable as its value: ==, !=,
\* <, <=, >, >=, +, -, *, /, //, %, ** and divmod with a Variable as left
\* operand, as right operand or as both give what the operator gives for
\* the plain values.
C26_VariableAsValue ==
    lastOp = "evaluate" =>
        expr_result = PlainOp(expr_op, expr_left[2], expr_right[2])

\* 4 - v for v = Variable(3) is 1: the Variable is the right operand of an
\* operator that does not commute.
C26_Witness ==
    /\ lastOp = "evaluate"
    /\ expr_op = "-"
    /\ expr_left = <<"num", 4>>
    /\ expr_right = <<"var", 3>>
    /\ expr_result = Number(1)

\* ------------------------------------------------- CanvasProjection
\* The point of the projection in canvas coordinates, by the item-to-canvas
\* matrix the step leaves.
Projected(point) == transform_point(matrix_i2c'[proj_item], point[1], point[2])

InParent(m, pos, h) == transform_point(m[owner(h)], pos[h][1], pos[h][2])

\* C32: _update_handles(item) leaves handles[0] at (0, 0), has shifted every
\* handle of the item by the offset handles[0] had, has translated
\* item.matrix so that each handle's position in parent coordinates is as
\* before, and a second call changes nothing.
C32_UpdateHandlesNormalizes ==
    [][lastOp' = "_update_handles" =>
         LET item == lastArg'
             off == handle_pos[<<item, 1>>]
             after == [matrix |-> matrix', pos |-> handle_pos']
         IN  /\ handle_pos'[<<item, 1>>] = <<0, 0>>
             /\ \A h \in Handles :
                   /\ owner(h) = item =>
                         handle_pos'[h] = <<handle_pos[h][1] - off[1],
                                            handle_pos[h][2] - off[2]>>
                   /\ owner(h) # item => handle_pos'[h] = handle_pos[h]
                   /\ InParent(matrix', handle_pos', h) =
                         InParent(matrix, handle_pos, h)
             /\ update_handles(after, item) = after]_vars

\* The handles of an item were normalised more than once: its matrix has
\* gathered translations in both coordinates and another handle is left off
\* the origin.
C32_Witness ==
    /\ lastOp = "_update_handles"
    /\ matrix[lastArg][2] = MaxShift
    /\ matrix[lastArg][3] # 0
    /\ handle_pos[<<lastArg, 2>>] # <<0, 0>>

\* ------------------------------------------------- requests and hooks
\* C33: no update request is lost: when an update_now that raised nothing
\* returns, every item of the canvas for which a hook or callback of that
\* update_now called request_update and that has not been passed to its
\* update hook since is still in the dirty set, so that a later update_now
\* passes it to the hook and to the views without another request.
C33_NoRequestLost ==
    [][(pc = "views" /\ pc' = "idle" /\ ~exc) =>
          (unserved \cap nodes) \subseteq dirty_items']_vars

\* C34: a failed update does not block later ones: when a call of update_now
\* has ended with an exception (from a hook, the solver or obtaining the
\* drawing context) the guard of update_now is released, as it is whenever
\* no update_now is running, and every registered view has been notified by
\* that call: the notification itself did not fail.
C34_FailedUpdateDoesNotBlock ==
    [][/\ pc' = "idle" => ~in_update'
       /\ (pc # "idle" /\ pc' = "idle" /\ result' = "raised") =>
             EveryViewNotified]_vars

\* The guard is left set by an update_now that is no longer running: the
\* idle callback of update() finds it set and does not run update_now.
C34_Blocked ==
    /\ pc = "idle"
    /\ in_update
    /\ lastOp = "update_skipped"
    /\ dirty_items # {}

\* ------------------------------------------------- contexts of the hooks
\* The items a hook or callback of the running update_now removed.
RemovedInUpdate ==
    UNION {trace[k].du : k \in {j \in DOMAIN trace : trace[j].kind = "remove"}}

\* Every item that was pre-updated and not removed since is updated with the
\* context of its pre_update; an item updated without having been
\* pre-updated got a context made for the update.
ContextsKept ==
    /\ \A k \in PreEvents :
          trace[k].id \notin RemovedInUpdate =>
             \E l \in PostEvents : /\ trace[l].id = trace[k].id
                                    /\ trace[l].ctx = trace[k].ctx
    /\ \A l \in PostEvents :
          (\A k \in PreEvents : trace[k].id # trace[l].id) =>
             trace[l].ctx = FreshContext(trace[l].id)

C35_RemovedNotUpdated ==
    /\ AboutToReturn
    /\ \E k \in PreEvents :
          /\ trace[k].id \in RemovedInUpdate
          /\ \A l \in PostEvents : trace[l].id # trace[k].id

\* ------------------------------------------------- grab and ungrab
\* The GRAB and UNGRAB events among the calls of a log, in order.
GrabEvents(log) == SelectSeq(log, LAMBDA c : c[2] \in {"grab", "ungrab"})

\* The tool that holds the grab after the events g, when held holds it
\* before: a GRAB is sent only when no tool holds it and an UNGRAB only to
\* the tool that holds it. -1 when the events do not alternate that way.
RECURSIVE HeldAfter(_, _)
HeldAfter(g, held) ==
    IF g = <<>> THEN held
    ELSE LET c == Head(g) IN
         IF c[2] = "grab"
         THEN IF held = None THEN HeldAfter(Tail(g), c[1]) ELSE -1
         ELSE IF held = c[1] /\ held # None THEN HeldAfter(Tail(g), None) ELSE -1

\* C36: the ToolChain holds one grabbed tool at most: grab() while a tool is
\* grabbed does nothing, ungrab(t) for a tool that is not the grabbed one
\* does nothing, and in every call the GRAB and UNGRAB events sent to tools
\* continue the alternation: a GRAB only when no tool is grabbed, an UNGRAB
\* only to the grabbed tool, and the grabbed tool afterwards is the tool of
\* the last GRAB that no UNGRAB has followed.
C36_GrabAlternation ==
    [][lastOp' \in {"handle", "grab", "ungrab"} =>
          /\ grabbed_tool' \in Tools \cup {None}
          /\ HeldAfter(GrabEvents(tool_log'), grabbed_tool) = grabbed_tool'
          /\ (lastOp' = "grab" /\ grabbed_tool # None) =>
                 grabbed_tool' = grabbed_tool /\ tool_log' = <<>>
          /\ (lastOp' = "ungrab" /\ lastArg' # grabbed_tool) =>
                 grabbed_tool' = grabbed_tool /\ tool_log' = <<>>]_vars

\* grab(t) was called for another tool than the grabbed one and did nothing.
C36_Witness ==
    /\ lastOp = "grab"
    /\ grabbed_tool \in Tools
    /\ lastArg \in Tools
    /\ lastArg # grabbed_tool
    /\ tool_log = <<>>

\* ------------------------------------------------- ItemTool
\* C37: for every sequence of button-press, motion and button-release
\* events each InMotion aspect on which start_move was called, which are
\* those of _movable_items, receives stop_move from the handler that drops it
\* from _movable_items, and after a button release that the tool accepted
\* _movable_items is empty.
C37_MovePairing ==
    [][/\ \A i \in movable_items \ movable_items' :
             AspectCall("stop_move", InMotion(i)) \in aspect_log'
       /\ (lastOp' = "item_release" /\ handler_result' = "true") =>
             movable_items' = {}]_vars

\* ------------------------------------------------- HandleTool
\* C38: grabbed_item and grabbed_handle of the HandleTool are both set or
\* both None; after on_button_release has returned, grabbed_item,
\* grabbed_handle and motion_handle are None; a motion handle that was
\* started gets stop_move from the handler that drops it; and
\* ConnectHandleTool.on_button_release returns with all of that also when
\* connecting the handle raised.
C38_HandleToolState ==
    [][/\ (grabbed_item' = None) <=> (grabbed_handle' = NoHandle)
       /\ lastOp' \in {"handle_release", "connect_release"} =>
             /\ handler_result' = "true"
             /\ grabbed_item' = None
             /\ grabbed_handle' = NoHandle
             /\ motion_handle' = NoHandle
       /\ (motion_handle # NoHandle /\ motion_handle' # motion_handle) =>
             AspectCall("stop_move", motion_handle) \in aspect_log']_vars

\* ------------------------------------------------- ItemConnector.connect
\* C39: after ItemConnector.connect(sink) has returned, the handle is
\* connected to sink.item, by a record this call registered, or it is not
\* connected at all; the record it had before the call has been removed,
\* also when allow(sink) was false and nothing was registered.
C39_ConnectNeverKeepsOld ==
    [][(lastOp' = "connect" /\ lastErr' = "none") =>
         LET h == lastHandle'
             reg == Positions(op_log', "register", h)
         IN  /\ connected_to'[h] = IF reg = {} THEN None ELSE lastArg'
             /\ connected_to[h] # None =>
                    Positions(op_log', "unregister", h) # {}]_vars

\* connect(sink) has returned for a handle that was connected: its record
\* was removed, allow(sink) was false, and the handle is not connected.
C39_Witness ==
    /\ lastOp = "connect"
    /\ lastErr = "none"
    /\ lastArg \in nodes
    /\ connected_to[lastHandle] = None
    /\ Positions(op_log, "unregister", lastHandle) # {}
    /\ Positions(op_log, "register", lastHandle) = {}

\* ------------------------------------------------- sink.port
\* C40: after any sequence of glue() calls on one ItemConnectionSink,
\* sink.port is the port that gave the glue position the most recent call
\* returned, and None when that call returned no glue position; so
\* constraint() passes its assertion only after a glue() that found a port.
C40_PortOfLastGlue ==
    lastOp = "glue" =>
        /\ IF Truthy(glue_result[1])
           THEN /\ sink_port \in DOMAIN glue_ports
                /\ glue_ports[sink_port].g = glue_result[1]
           ELSE sink_port = None
        /\ ~constraint_raises(sink_port) <=> Truthy(glue_result[1])

\* The most recent glue() found no port and sink.port is still the port an
\* earlier call found.
C40_StalePort ==
    /\ lastOp = "glue"
    /\ ~Truthy(glue_result[1])
    /\ sink_port # None

====
